---- MODULE Spec2Model ----
(***************************************************************************)
(* APIHub-Gateway: the balance ledger (services/token_service.py), the     *)
(* in-memory rate limiter (middleware/rate_limit.py), the credential store *)
(* (services/key_service.py) and the proxy pipeline (routers/proxy.py).    *)
(*                                                                         *)
(* Numbers.  The code keeps balances, quotas and costs as floats.  Here a  *)
(* token amount given to the ledger is a whole number of tokens, a         *)
(* discount rate is a number of tenths (10 = 1.0, 8 = 0.8) and a stored    *)
(* balance or a transaction amount is a number of tenths of a token, so    *)
(* that amount * discount_rate is exact.  Time is counted in ticks of half *)
(* a second so that int() of a duration truncates something.               *)
(***************************************************************************)
EXTENDS Integers, Sequences, FiniteSets, TLC

VARIABLES
    users,          \* table users: id -> row (token/balance columns)
    transactions,   \* table token_transactions, in creation order
    ret,            \* what the last finished ledger call returned
    sess            \* one database session per in-flight ledger request

ledgerVars == <<users, transactions, ret, sess>>

VARIABLES
    now,            \* time.time(), in ticks
    requests,       \* RateLimiter.requests: scoping key -> timestamps
    rlLog,          \* the is_allowed calls made so far and what each returned
    caller          \* per request: the key it is about to check, 0 if none

limiterVars == <<now, requests, rlLog, caller>>

VARIABLES
    keys,           \* table api_keys: id -> row
    owners,         \* table users: id -> row (activity and quota columns)
    kret,           \* what the last key or owner administration call returned
    px,             \* the proxied requests in flight, one session each
    calls,          \* the number of proxied calls so far
    pret,           \* how the last proxied call to leave the pipeline left it
    usage,          \* table usage_records, in creation order
    vret            \* what the last validate_key call returned

storeVars == <<keys, owners, kret>>
proxyVars == <<px, calls, pret, usage, vret>>

VARIABLES
    bret,           \* what the last create_batch call returned
    minted          \* the number of secrets generate_api_key has produced

issueVars == <<bret, minted>>

VARIABLES
    payments,       \* table payments: order_no -> row
    nret            \* what the last payment notification callback returned

payVars == <<payments, nret>>

VARIABLES
    settings,       \* config.py Settings, the part the proxy reads for headers
    fwd             \* the last request sent upstream and the one it came from

forwardVars == <<settings, fwd>>

VARIABLES
    login_attempts, \* routers/auth.py login_attempts: identifier -> times of failures
    lret            \* what the last login returned

loginVars == <<login_attempts, lret>>

\* the state of the parts that stand beside the ledger, the limiter and the
\* proxy pipeline
sideVars == <<issueVars, payVars, forwardVars, loginVars>>

\* what a step of one part leaves alone
notLedger == <<limiterVars, storeVars, proxyVars, sideVars>>
notLimiter == <<ledgerVars, storeVars, proxyVars, sideVars>>
notProxy == <<ledgerVars, rlLog, caller, sideVars>>

(***************************************************************************)
(* Bounds of the model.                                                    *)
(***************************************************************************)
MaxTx == 3
NumSessions == 2

(***************************************************************************)
(* Balance ledger: services/token_service.py over models/user.py           *)
(***************************************************************************)
Users == {1}                    \* rows of table users
UserIds == Users \cup {2}       \* 2: an id with no row
Amounts == {-1, 0, 1, 2}        \* token amounts passed to a ledger call
RateInputs == {0, 5, 10, 11}    \* set_discount arguments, in tenths
Sessions == 1 .. NumSessions

\* models/user.py: column defaults of a new User
NewUser ==
    [token_balance |-> 0, total_recharged |-> 0, total_consumed |-> 0,
     discount_rate |-> 10]

\* a float amount of tokens, in stored tenths
Tenths(amount) == amount * 10

\* result of `select(User).where(User.id == user_id)` / scalar_one_or_none
Found(db, user_id) == user_id \in DOMAIN db
Row(db, user_id) == IF Found(db, user_id) THEN db[user_id] ELSE NewUser

TokenTransaction(user_id, amount, before, after, type) ==
    [user_id |-> user_id, amount |-> amount, balance_before |-> before,
     balance_after |-> after, transaction_type |-> type]

\* `return False, <balance>, None`
Failure(row, balance) ==
    [success |-> FALSE, balance |-> balance, row |-> row, tx |-> <<>>]

Success(row, tx) ==
    [success |-> TRUE, balance |-> row.token_balance, row |-> row, tx |-> <<tx>>]

\* TokenService.recharge, on the row its select returned
recharge(found, row, user_id, amount) ==
    IF amount <= 0 THEN Failure(row, 0)
    ELSE IF ~found THEN Failure(row, 0)
    ELSE LET after == row.token_balance + Tenths(amount)
         IN  Success([row EXCEPT !.token_balance = after,
                                 !.total_recharged = @ + Tenths(amount)],
                     TokenTransaction(user_id, Tenths(amount), row.token_balance,
                                      after, "recharge"))

\* a debit that ignores the discount
ActualAmountFull(row, amount, apply_discount) == Tenths(amount)

\* the amount consume and check_balance debit: amount * discount_rate when
\* the discount applies and the rate is below 1.0
ActualAmount(row, amount, apply_discount) ==
    IF apply_discount /\ row.discount_rate < 10
    THEN amount * row.discount_rate
    ELSE Tenths(amount)

\* a sufficiency test that only asks for a positive balance
InsufficientUnlessPositive(balance, actual_amount) == balance <= 0

\* the test that lets a consume through
Insufficient(balance, actual_amount) == balance < actual_amount

\* a consume that takes what is left when the balance does not cover the debit
consumePartial(found, row, user_id, amount, apply_discount) ==
    IF amount <= 0 THEN Failure(row, 0)
    ELSE IF ~found THEN Failure(row, 0)
    ELSE LET actual_amount == ActualAmount(row, amount, apply_discount)
             taken == IF actual_amount < row.token_balance THEN actual_amount
                      ELSE row.token_balance
             after == row.token_balance - taken
         IN  Success([row EXCEPT !.token_balance = after,
                                 !.total_consumed = @ + taken],
                     TokenTransaction(user_id, -taken, row.token_balance, after,
                                      "consume"))

\* TokenService.consume
consume(found, row, user_id, amount, apply_discount) ==
    IF amount <= 0 THEN Failure(row, 0)
    ELSE IF ~found THEN Failure(row, 0)
    ELSE LET actual_amount == ActualAmount(row, amount, apply_discount)
             after == row.token_balance - actual_amount
         IN  IF Insufficient(row.token_balance, actual_amount)
             THEN Failure(row, row.token_balance)
             ELSE Success([row EXCEPT !.token_balance = after,
                                      !.total_consumed = @ + actual_amount],
                          TokenTransaction(user_id, -actual_amount,
                                           row.token_balance, after, "consume"))

\* a refund that takes the amount back off total_consumed
refundUndoingConsumed(found, row, user_id, amount) ==
    IF amount <= 0 THEN Failure(row, 0)
    ELSE IF ~found THEN Failure(row, 0)
    ELSE LET after == row.token_balance + Tenths(amount)
         IN  Success([row EXCEPT !.token_balance = after,
                                 !.total_consumed = @ - Tenths(amount)],
                     TokenTransaction(user_id, Tenths(amount), row.token_balance,
                                      after, "refund"))

\* TokenService.refund
refund(found, row, user_id, amount) ==
    IF amount <= 0 THEN Failure(row, 0)
    ELSE IF ~found THEN Failure(row, 0)
    ELSE LET after == row.token_balance + Tenths(amount)
         IN  Success([row EXCEPT !.token_balance = after],
                     TokenTransaction(user_id, Tenths(amount), row.token_balance,
                                      after, "refund"))

\* an adjust that clamps the balance at zero instead of refusing
adjustClamped(found, row, user_id, amount) ==
    IF ~found THEN Failure(row, 0)
    ELSE LET balance_before == row.token_balance
             sum == balance_before + Tenths(amount)
             new_balance == IF sum < 0 THEN 0 ELSE sum
         IN  Success([row EXCEPT !.token_balance = new_balance],
                     TokenTransaction(user_id, Tenths(amount), balance_before,
                                      new_balance, "adjust"))

\* TokenService.adjust
adjust(found, row, user_id, amount) ==
    IF ~found THEN Failure(row, 0)
    ELSE LET balance_before == row.token_balance
             new_balance == balance_before + Tenths(amount)
         IN  IF new_balance < 0
             THEN Failure(row, balance_before)
             ELSE Success([row EXCEPT !.token_balance = new_balance],
                          TokenTransaction(user_id, Tenths(amount), balance_before,
                                           new_balance, "adjust"))

\* a check that compares the balance with the undiscounted amount
check_balanceFull(found, row, amount) ==
    IF ~found THEN [has_enough |-> FALSE, balance |-> 0]
    ELSE [has_enough |-> row.token_balance >= Tenths(amount),
          balance |-> row.token_balance]

\* TokenService.check_balance: (has_enough, current_balance)
check_balance(found, row, amount) ==
    IF ~found THEN [has_enough |-> FALSE, balance |-> 0]
    ELSE [has_enough |-> row.token_balance >= ActualAmount(row, amount, TRUE),
          balance |-> row.token_balance]

\* a set_discount that assigns the rate before it validates it
set_discountAssignFirst(found, row, discount_rate) ==
    IF ~found THEN [success |-> FALSE, row |-> row]
    ELSE [success |-> ~(discount_rate <= 0 \/ discount_rate > 10),
          row |-> [row EXCEPT !.discount_rate = discount_rate]]

\* TokenService.set_discount
set_discount(found, row, discount_rate) ==
    IF discount_rate <= 0 \/ discount_rate > 10 THEN [success |-> FALSE, row |-> row]
    ELSE IF ~found THEN [success |-> FALSE, row |-> row]
    ELSE [success |-> TRUE, row |-> [row EXCEPT !.discount_rate = discount_rate]]

\* one ledger call of kind op, computed on the row the session holds
TokenCall(op, found, row, user_id, amount, apply_discount) ==
    CASE op = "recharge" -> recharge(found, row, user_id, amount)
      [] op = "consume"  -> consume(found, row, user_id, amount, apply_discount)
      [] op = "refund"   -> refund(found, row, user_id, amount)
      [] op = "adjust"   -> adjust(found, row, user_id, amount)

TokenOps == {"recharge", "consume", "refund", "adjust"}

Columns == {"token_balance", "total_recharged", "total_consumed", "discount_rate"}

\* `await self.db.flush()`: the unit of work writes the attributes the
\* session changed on its object, as absolute values, and inserts the new
\* transaction row
Flush(db, user_id, loaded, changed) ==
    IF user_id \in DOMAIN db
    THEN [db EXCEPT ![user_id] =
            [c \in Columns |-> IF changed[c] # loaded[c] THEN changed[c] ELSE @[c]]]
    ELSE db

Returned(op, user_id, amount, apply_discount, res) ==
    [op |-> op, user_id |-> user_id, amount |-> amount,
     apply_discount |-> apply_discount, success |-> res.success,
     balance |-> res.balance]

NoSession ==
    [pc |-> "idle", op |-> "none", user_id |-> 0, amount |-> 0,
     apply_discount |-> FALSE, found |-> FALSE, loaded |-> NewUser,
     res |-> Failure(NewUser, 0)]

LedgerInit ==
    /\ users = [u \in Users |-> NewUser]
    /\ transactions = <<>>
    /\ ret = [op |-> "none", user_id |-> 0, amount |-> 0, apply_discount |-> FALSE,
              success |-> FALSE, balance |-> 0]
    /\ sess = [s \in Sessions |-> NoSession]

Started == Len(transactions) + Cardinality({s \in Sessions : sess[s].pc # "idle"})

(***************************************************************************)
(* The ledger with its calls run one at a time: each action is one call    *)
(* from its select to its flush.                                           *)
(***************************************************************************)
RunCall(op, user_id, amount, apply_discount) ==
    LET res == TokenCall(op, Found(users, user_id), Row(users, user_id),
                         user_id, amount, apply_discount)
    IN  /\ Len(transactions) < MaxTx
        /\ users' = Flush(users, user_id, Row(users, user_id), res.row)
        /\ transactions' = transactions \o res.tx
        /\ ret' = Returned(op, user_id, amount, apply_discount, res)
        /\ UNCHANGED <<sess, notLedger>>

Recharge == \E u \in UserIds, a \in Amounts : RunCall("recharge", u, a, FALSE)

Consume ==
    \E u \in UserIds, a \in Amounts, d \in BOOLEAN : RunCall("consume", u, a, d)

Refund == \E u \in UserIds, a \in Amounts : RunCall("refund", u, a, FALSE)

Adjust == \E u \in UserIds, a \in Amounts : RunCall("adjust", u, a, FALSE)

SetDiscount ==
    \E u \in UserIds, rate \in RateInputs :
        LET res == set_discount(Found(users, u), Row(users, u), rate)
        IN  /\ users' = Flush(users, u, Row(users, u), res.row)
            /\ ret' = [op |-> "set_discount", user_id |-> u, amount |-> rate,
                       apply_discount |-> FALSE, success |-> res.success,
                       balance |-> 0]
            /\ UNCHANGED <<transactions, sess, notLedger>>

\* TokenService.check_balance: a select and no write; like the other calls
\* it is made while the run has room for a transaction
CheckBalance ==
    \E u \in UserIds, a \in Amounts :
        LET res == check_balance(Found(users, u), Row(users, u), a)
        IN  /\ Len(transactions) < MaxTx
            /\ ret' = [op |-> "check_balance", user_id |-> u, amount |-> a,
                       apply_discount |-> TRUE, success |-> res.has_enough,
                       balance |-> res.balance]
            /\ UNCHANGED <<users, transactions, sess, notLedger>>

LedgerNext == Recharge \/ Consume \/ Refund \/ Adjust \/ SetDiscount \/ CheckBalance

(***************************************************************************)
(* The ledger with concurrent requests.  Each request has its own session. *)
(* A call suspends at `await self.db.execute(select ...)` and again at     *)
(* `await self.db.flush()`; between the two it runs without interruption   *)
(* on the row its select returned.                                         *)
(***************************************************************************)
\* from the call to the line before `await self.db.flush()`
TokSelect(s, op, user_id, amount, apply_discount) ==
    LET found == Found(users, user_id)
        loaded == Row(users, user_id)
        res == TokenCall(op, found, loaded, user_id, amount, apply_discount)
    IN  /\ sess[s].pc = "idle"
        /\ Started < MaxTx
        /\ IF res.success
           THEN /\ sess' = [sess EXCEPT ![s] =
                        [pc |-> "flush", op |-> op, user_id |-> user_id,
                         amount |-> amount, apply_discount |-> apply_discount,
                         found |-> found, loaded |-> loaded, res |-> res]]
                /\ UNCHANGED ret
           ELSE /\ ret' = Returned(op, user_id, amount, apply_discount, res)
                /\ UNCHANGED sess
        /\ UNCHANGED <<users, transactions, notLedger>>

\* `await self.db.flush()` and the return
TokFlush(s) ==
    LET q == sess[s]
    IN  /\ q.pc = "flush"
        /\ users' = Flush(users, q.user_id, q.loaded, q.res.row)
        /\ transactions' = transactions \o q.res.tx
        /\ ret' = Returned(q.op, q.user_id, q.amount, q.apply_discount, q.res)
        /\ sess' = [sess EXCEPT ![s] = NoSession]
        /\ UNCHANGED notLedger

Select ==
    \E s \in Sessions, op \in TokenOps, u \in Users, a \in Amounts :
        TokSelect(s, op, u, a, TRUE)

FlushSession == \E s \in Sessions : TokFlush(s)

RaceNext == Select \/ FlushSession


(***************************************************************************)
(* Rate limiter: middleware/rate_limit.py.  One RateLimiter per process,   *)
(* called from check_rate_limit; is_allowed has no await in it, so on the  *)
(* event loop a call runs from its first line to its return before any     *)
(* other request runs.                                                     *)
(***************************************************************************)
TicksPerSec == 2    \* ticks in a second
Early == 1          \* ticks modelled at the start and around the window's end
MaxCalls == 5       \* is_allowed calls in one run
NumCallers == 2     \* requests that can wait on the limiter together
KeyRateLimit == 3   \* rate_limit of key 1 (requests per minute)

RateLimitEnabled == TRUE    \* settings.rate_limit_enabled
RateLimitRequests == 100    \* settings.rate_limit_requests
RateLimitWindow == 60       \* settings.rate_limit_window
ProxyWindow == 60           \* the window proxy_request passes

KeyIds == {1, 2}
Callers == 1 .. NumCallers
Ticks(seconds) == seconds * TicksPerSec
TimePoints ==
    (0 .. Early) \cup ((Ticks(ProxyWindow) - Early) .. (Ticks(ProxyWindow) + Early))

\* int(): truncation toward zero of a duration in ticks to whole seconds
IntSeconds(ticks) ==
    IF ticks >= 0 THEN ticks \div TicksPerSec ELSE -((-ticks) \div TicksPerSec)

Min(S) == CHOOSE x \in S : \A y \in S : x <= y
Max(a, b) == IF a >= b THEN a ELSE b
Range(f) == {f[i] : i \in DOMAIN f}

\* RateLimiter._cleanup_old_requests: keeps `current_time - ts < window`
cleanup_old_requests(stamps, window, time) ==
    SelectSeq(stamps, LAMBDA ts : time - ts < Ticks(window))

\* a limit test that lets one call too many through
AtLimitOffByOne(current_count, max_requests) == current_count > max_requests

\* `if current_count >= max_requests`
AtLimit(current_count, max_requests) == current_count >= max_requests

\* a recording that replaces the list by the new timestamp
RecordOnly(stamps, time) == <<time>>

\* a recording that forgets the call
RecordNothing(stamps, time) == stamps

\* `self.requests[key].append(time.time())`
Record(stamps, time) == Append(stamps, time)

\* an is_allowed that records the time of a rejected call as well
is_allowedCountingRejected(stamps, max_requests_arg, window_arg, time) ==
    LET max_requests == IF max_requests_arg # 0 THEN max_requests_arg ELSE RateLimitRequests
        window == IF window_arg # 0 THEN window_arg ELSE RateLimitWindow
        kept == cleanup_old_requests(stamps, window, time)
    IN  IF AtLimit(Len(kept), max_requests)
        THEN [allowed |-> FALSE, remaining |-> 0,
              reset_in |-> IntSeconds(Ticks(window) - (time - Min(Range(kept)))),
              stamps |-> Record(kept, time)]
        ELSE [allowed |-> TRUE, remaining |-> Max(0, max_requests - Len(kept) - 1),
              reset_in |-> window, stamps |-> Record(kept, time)]

\* RateLimiter.is_allowed on the key's list; 0 stands for an argument that
\* is None (or falsy) and falls back to the settings
is_allowed(stamps, max_requests_arg, window_arg, time) ==
    IF ~RateLimitEnabled
    THEN [allowed |-> TRUE, remaining |-> 999, reset_in |-> 0, stamps |-> stamps]
    ELSE LET max_requests ==
                 IF max_requests_arg # 0 THEN max_requests_arg ELSE RateLimitRequests
             window == IF window_arg # 0 THEN window_arg ELSE RateLimitWindow
             kept == cleanup_old_requests(stamps, window, time)
             current_count == Len(kept)
             remaining == Max(0, max_requests - current_count - 1)
         IN  IF AtLimit(current_count, max_requests)
             THEN LET oldest == IF kept # <<>> THEN Min(Range(kept)) ELSE time
                  IN  [allowed |-> FALSE, remaining |-> 0,
                       reset_in |-> IntSeconds(Ticks(window) - (time - oldest)),
                       stamps |-> kept]
             ELSE [allowed |-> TRUE, remaining |-> remaining, reset_in |-> window,
                   stamps |-> Record(kept, time)]

\* api_key.rate_limit of the keys the limiter is called for
RateLimitOf(k) == IF k = 1 THEN KeyRateLimit ELSE 1

LimiterInit ==
    /\ now = 0
    /\ requests = [k \in KeyIds |-> <<>>]
    /\ rlLog = <<>>
    /\ caller = [c \in Callers |-> 0]

Waiting == {c \in Callers : caller[c] # 0}

\* proxy_request reaches `await check_rate_limit(...)` for key k
Arrive(c, k) ==
    /\ caller[c] = 0
    /\ Len(rlLog) + Cardinality(Waiting) < MaxCalls
    /\ caller' = [caller EXCEPT ![c] = k]
    /\ UNCHANGED <<now, requests, rlLog, notLimiter>>

\* check_rate_limit: the call of is_allowed and the 429 or the return
CheckRateLimit(c) ==
    LET k == caller[c]
        r == is_allowed(requests[k], RateLimitOf(k), ProxyWindow, now)
    IN  /\ k # 0
        /\ requests' = [requests EXCEPT ![k] = r.stamps]
        /\ rlLog' = Append(rlLog, [key |-> k, at |-> now, allowed |-> r.allowed,
                                   remaining |-> r.remaining,
                                   reset_in |-> r.reset_in])
        /\ caller' = [caller EXCEPT ![c] = 0]
        /\ UNCHANGED <<now, notLimiter>>

\* time passes
Advance ==
    /\ \E t \in TimePoints : t > now /\ now' = t
    /\ UNCHANGED <<requests, rlLog, caller, notLimiter>>

LimiterNext ==
    \/ \E c \in Callers, k \in KeyIds : Arrive(c, k)
    \/ \E c \in Callers : CheckRateLimit(c)
    \/ Advance

(***************************************************************************)
(* Credential store: services/key_service.py over models/api_key.py.       *)
(* None is the NULL of an optional column.  A key's quota_used and         *)
(* total_cost count tenths of a millionth of a quota unit (one token costs *)
(* 0.000001 and the discount rate is in tenths); token counts are whole.   *)
(***************************************************************************)
MaxProxyCalls == 2  \* proxied calls in one run
MaxAdminOps == 1    \* key and owner administration calls in one run

TokenLimit == 2     \* token_limit of key 1
RateLimitDay == 1   \* rate_limit_day of key 1, in requests
QuotaLimit == 16    \* quota_limit of key 2, in tenths of a millionth

None == 0 - 1
OwnerIds == {1, 2}
Secrets == {"s1", "s2", "s3"}
Models == {"m1", "m2"}

\* utils/auth.py hash_api_key: the SHA-256 digest of the secret
hash_api_key(plain_key) ==
    CASE plain_key = "s1" -> "h1"
      [] plain_key = "s2" -> "h2"
      [] plain_key = "g1" -> "hg1"
      [] plain_key = "g2" -> "hg2"
      [] plain_key = "g3" -> "hg3"
      [] plain_key = "g4" -> "hg4"
      [] plain_key = "g5" -> "hg5"
      [] plain_key = "g6" -> "hg6"
      [] plain_key = "g7" -> "hg7"
      [] plain_key = "g8" -> "hg8"
      [] OTHER -> "h3"

\* APIKeyService.create_key: the row of a new key with its column defaults
create_key(user_id, plain_key, rate_limit, rate_limit_day, quota_limit, token_limit, discount_rate, allowed_models, expires_at, batch_id) ==
    [user_id |-> user_id, key_hash |-> hash_api_key(plain_key),
     is_active |-> TRUE, rate_limit |-> rate_limit,
     rate_limit_day |-> rate_limit_day,
     quota_limit |-> quota_limit, quota_used |-> 0,
     token_limit |-> token_limit, token_used |-> 0,
     discount_rate |-> discount_rate, allowed_models |-> allowed_models,
     expires_at |-> expires_at, last_used_at |-> None,
     total_requests |-> 0, total_tokens |-> 0, total_cost |-> 0,
     batch_id |-> batch_id]

\* models/user.py and UserService.create_user: a new owner
NewOwner(quota_limit) ==
    [is_active |-> TRUE, quota_limit |-> quota_limit, quota_used |-> 0,
     discount_rate |-> 10]

\* get_key_by_hash: the ids of the rows with that digest
KeysByHash(db, key_hash) == {k \in DOMAIN db : db[k].key_hash = key_hash}

\* an expiry test that already rejects at the instant of expiry
ExpiredAtInstant(expires_at, time) == expires_at # None /\ expires_at <= time

\* `api_key.expires_at and api_key.expires_at < datetime.now(timezone.utc)`
Expired(expires_at, time) == expires_at # None /\ expires_at < time

\* a token test that lets the call at the limit through
TokenExhaustedPastLimit(row) ==
    row.token_limit # None /\ row.token_used > row.token_limit

\* a token test that never finds the budget used up
TokenExhaustedNever(row) == FALSE

\* `token_limit is not None and token_used >= token_limit`
TokenExhausted(row) == row.token_limit # None /\ row.token_used >= row.token_limit

\* `quota_limit is not None and quota_used >= quota_limit`
QuotaExhausted(row) == row.quota_limit # None /\ row.quota_used >= row.quota_limit

\* APIKeyService.validate_key: the id of the key returned, 0 for None
validate_key(db, plain_key, time) ==
    LET found == KeysByHash(db, hash_api_key(plain_key))
    IN  IF found = {} THEN 0
        ELSE LET k == CHOOSE id \in found : TRUE
             IN  IF ~db[k].is_active THEN 0
                 ELSE IF Expired(db[k].expires_at, time) THEN 0
                 ELSE IF TokenExhausted(db[k]) THEN 0
                 ELSE IF QuotaExhausted(db[k]) THEN 0
                 ELSE k

\* the keyword arguments tried for update_key: token_limit, the field of
\* APIKeyUpdate set here, unset or raised, and a call on the service that
\* names the columns update_key protects
KeyUpdates ==
    {[token_limit |-> None], [token_limit |-> TokenLimit + 2],
     [user_id |-> 2, key_hash |-> "h3"]}

\* the columns update_key never assigns
ProtectedColumns == {"key", "key_hash", "user_id"}

\* an update_key that does not ask whose key it is
update_keyAnyOwner(db, key_id, user_id, kwargs) ==
    IF key_id \notin DOMAIN db
    THEN [ok |-> FALSE, db |-> db]
    ELSE [ok |-> TRUE,
          db |-> [db EXCEPT ![key_id] =
                    [c \in DOMAIN @ |-> IF c \in DOMAIN kwargs /\ c \notin ProtectedColumns
                                        THEN kwargs[c] ELSE @[c]]]]

\* APIKeyService.update_key: None (ok = FALSE) unless the key is the caller's
update_key(db, key_id, user_id, kwargs) ==
    IF key_id \notin DOMAIN db \/ db[key_id].user_id # user_id
    THEN [ok |-> FALSE, db |-> db]
    ELSE [ok |-> TRUE,
          db |-> [db EXCEPT ![key_id] =
                    [c \in DOMAIN @ |-> IF c \in DOMAIN kwargs /\ c \notin ProtectedColumns
                                        THEN kwargs[c] ELSE @[c]]]]

\* APIKeyService.deactivate_key
deactivate_key(db, key_id, user_id) ==
    IF key_id \notin DOMAIN db \/ db[key_id].user_id # user_id
    THEN [ok |-> FALSE, db |-> db]
    ELSE [ok |-> TRUE, db |-> [db EXCEPT ![key_id].is_active = FALSE]]

\* APIKeyService.delete_key
delete_key(db, key_id, user_id) ==
    IF key_id \notin DOMAIN db \/ db[key_id].user_id # user_id
    THEN [ok |-> FALSE, db |-> db]
    ELSE [ok |-> TRUE, db |-> [k \in DOMAIN db \ {key_id} |-> db[k]]]

\* the delete of a key cascades to its usage records (models/api_key.py,
\* `cascade="all, delete-orphan"`)
cascade_delete(table, key_id) == SelectSeq(table, LAMBDA r : r.api_key_id # key_id)

\* a reset_key_usage that leaves the tokens used where they are
reset_key_usageKeepingTokens(db, key_id) ==
    IF key_id \notin DOMAIN db
    THEN [ok |-> FALSE, db |-> db]
    ELSE [ok |-> TRUE,
          db |-> [db EXCEPT ![key_id].quota_used = 0, ![key_id].total_requests = 0,
                            ![key_id].total_tokens = 0]]

\* APIKeyService.reset_key_usage
reset_key_usage(db, key_id) ==
    IF key_id \notin DOMAIN db
    THEN [ok |-> FALSE, db |-> db]
    ELSE [ok |-> TRUE,
          db |-> [db EXCEPT ![key_id].quota_used = 0, ![key_id].token_used = 0,
                            ![key_id].total_requests = 0,
                            ![key_id].total_tokens = 0]]

\* the changes of an owner tried here: suspended, or out of quota
OwnerUpdates ==
    {[is_active |-> FALSE, quota_limit |-> 100], [is_active |-> TRUE, quota_limit |-> 0]}

StoreInit ==
    /\ keys = (1 :> create_key(1, "s1", KeyRateLimit, RateLimitDay, None, TokenLimit, 10, {},
                                  None, "none"))
              @@ (2 :> create_key(2, "s2", 1, None, QuotaLimit, None, 8, {"m1"},
                                  Ticks(ProxyWindow) - 1, "none"))
    /\ owners = [u \in OwnerIds |->
                    [NewOwner(100) EXCEPT !.discount_rate = IF u = 2 THEN 5 ELSE @]]
    /\ kret = [op |-> "none", key_id |-> 0, user_id |-> 0, ok |-> FALSE, n |-> 0]

\* an administration call: its result, the tables after it
Administer(op, key_id, user_id, ok, newKeys, newOwners) ==
    /\ kret.n < MaxAdminOps
    /\ kret' = [op |-> op, key_id |-> key_id, user_id |-> user_id, ok |-> ok,
                n |-> kret.n + 1]
    /\ keys' = newKeys
    /\ owners' = newOwners
    /\ UNCHANGED <<proxyVars, limiterVars, ledgerVars, sideVars>>

\* the key ids an administration call names: the keys, and an id no key has
AdminKeyIds == KeyIds \cup {3}

UpdateKey ==
    \E k \in AdminKeyIds, u \in OwnerIds, kwargs \in KeyUpdates :
        LET r == update_key(keys, k, u, kwargs)
        IN  Administer("update_key", k, u, r.ok, r.db, owners)

DeactivateKey ==
    \E k \in AdminKeyIds, u \in OwnerIds :
        LET r == deactivate_key(keys, k, u)
        IN  Administer("deactivate_key", k, u, r.ok, r.db, owners)

\* routers/api_keys.py reset_key_usage: the owner check, then the reset
ResetKeyUsage ==
    \E k \in AdminKeyIds, u \in OwnerIds :
        LET owned == k \in DOMAIN keys /\ keys[k].user_id = u
            r == IF owned THEN reset_key_usage(keys, k) ELSE [ok |-> FALSE, db |-> keys]
        IN  Administer("reset_key_usage", k, u, r.ok, r.db, owners)

\* routers/api_keys.py delete_key: the key goes, and with it its usage records
DeleteKey ==
    \E k \in AdminKeyIds, u \in OwnerIds :
        LET r == delete_key(keys, k, u)
        IN  /\ kret.n < MaxAdminOps
            /\ kret' = [op |-> "delete_key", key_id |-> k, user_id |-> u, ok |-> r.ok,
                        n |-> kret.n + 1]
            /\ keys' = r.db
            /\ usage' = IF r.ok THEN cascade_delete(usage, k) ELSE usage
            /\ UNCHANGED <<owners, px, calls, pret, vret, limiterVars, ledgerVars, sideVars>>

\* UserService.update_user by an administrator: activity, quota ceiling
UpdateOwner ==
    \E u \in OwnerIds, upd \in OwnerUpdates :
        Administer("update_user", 0, 0, TRUE, keys,
                   [owners EXCEPT ![u].is_active = upd.is_active,
                                  ![u].quota_limit = upd.quota_limit])

(***************************************************************************)
(* Proxy pipeline: routers/proxy.py behind middleware/auth.py get_api_key. *)
(* A request owns one database session.  The APIKey object validate_key    *)
(* loads stays in the session's identity map, so every later               *)
(* get_key_by_id of the request works on that object and not on the row as *)
(* it is by then; the unit of work writes the attributes the request       *)
(* changed, as absolute values.  A request is cut at its two waits: for    *)
(* the handler to be entered and for the upstream service.  A usage        *)
(* record's cost counts tenths of a millionth, like a key's quota_used.    *)
(***************************************************************************)
Slots == {1, 2}     \* the requests that can be in flight together
NoModel == "none"
ModelInputs == Models \cup {NoModel}
\* token totals an upstream response reports; the gateway takes the numbers
\* of the usage block as they come, a negative one included
TokenCounts == {0 - 1, 0, 1, 2}
StreamCounts == {2}             \* usage totals a stream's data events carry
UpstreamStatus == {200, 500}
StreamingStatus == 200          \* the status line of a StreamingResponse

KeyColumns ==
    {"user_id", "key_hash", "is_active", "rate_limit", "rate_limit_day", "quota_limit",
     "quota_used", "token_limit", "token_used", "discount_rate",
     "allowed_models", "expires_at", "last_used_at", "total_requests",
     "total_tokens", "total_cost", "batch_id"}

\* a flush of the request's session (the autoflush before its next query):
\* the unit of work writes the attributes changed on the APIKey object
KeyFlush(db, key_id, loaded, changed) ==
    IF key_id \in DOMAIN db
    THEN [db EXCEPT ![key_id] =
            [c \in KeyColumns |-> IF changed[c] # loaded[c] THEN changed[c] ELSE @[c]]]
    ELSE db

\* the commit of the request's session when its handler is done (get_db in
\* app/database.py): the unit of work writes what the request changed on
\* its APIKey object since the last flush
Commit(db, key_id, loaded, changed) == KeyFlush(db, key_id, loaded, changed)

\* `cost = (prompt_tokens + completion_tokens) / 1000 * 0.001`
Cost(tokens) == tokens * 10

\* an increment_usage that charges at the owner's discount rate
increment_usageOwnerRate(obj, tokens, cost, apply_discount) ==
    LET rate == owners[obj.user_id].discount_rate
        actual_cost == IF apply_discount /\ rate < 10 THEN (cost * rate) \div 10 ELSE cost
    IN  [obj EXCEPT !.total_requests = @ + 1,
                    !.total_tokens = @ + tokens,
                    !.token_used = @ + tokens,
                    !.quota_used = @ + actual_cost,
                    !.total_cost = @ + actual_cost]

\* APIKeyService.increment_usage on the session's object
increment_usage(obj, tokens, cost, apply_discount) ==
    LET actual_cost == IF apply_discount /\ obj.discount_rate < 10
                       THEN (cost * obj.discount_rate) \div 10
                       ELSE cost
    IN  [obj EXCEPT !.total_requests = @ + 1,
                    !.total_tokens = @ + tokens,
                    !.token_used = @ + tokens,
                    !.quota_used = @ + actual_cost,
                    !.total_cost = @ + actual_cost]

\* APIKeyService.check_quota: has_quota and the limit
check_quota(obj) ==
    IF obj.quota_limit = None
    THEN [has_quota |-> TRUE, limit |-> None]
    ELSE [has_quota |-> obj.quota_used < obj.quota_limit, limit |-> obj.quota_limit]

\* APIKeyService.check_token_limit: has_tokens and the limit; no route and
\* no step of proxy_request calls it
check_token_limit(obj) ==
    IF obj.token_limit = None
    THEN [has_tokens |-> TRUE, limit |-> None]
    ELSE [has_tokens |-> obj.token_used < obj.token_limit, limit |-> obj.token_limit]

\* APIKeyService.check_rate_limit_day: within_limit, for the day's count its
\* caller passes; no route and no step of proxy_request calls it
check_rate_limit_day(obj, current_day_requests) ==
    IF obj.rate_limit_day = None THEN TRUE
    ELSE current_day_requests < obj.rate_limit_day

\* UserService.update_quota_used; no route and no step of proxy_request
\* calls it
update_quota_used(db, user_id, amount) ==
    IF user_id \notin DOMAIN db THEN db
    ELSE [db EXCEPT ![user_id].quota_used = @ + amount]

\* UserService.check_quota
user_check_quota(db, user_id) ==
    IF user_id \notin DOMAIN db THEN FALSE
    ELSE db[user_id].quota_used < db[user_id].quota_limit

\* a model check that lets every model through
check_model_access_any(obj, model) == TRUE

\* a model check that takes the list as it is, the empty one included
check_model_access_listed(obj, model) == model \in obj.allowed_models

\* APIKeyService.check_model_access: an empty list allows every model
check_model_access(obj, model) ==
    IF obj.allowed_models = {} THEN TRUE ELSE model \in obj.allowed_models

\* the keyword parameters of UsageService.record_usage
RecordUsageParams ==
    {"user_id", "api_key_id", "endpoint", "method", "model", "prompt_tokens",
     "completion_tokens", "cost", "status_code", "response_time_ms",
     "is_streaming", "is_success", "error_message"}

\* the keywords stream_generator passes once the stream has ended
StreamEndArgs ==
    {"user_id", "api_key_id", "endpoint", "method", "model", "total_tokens",
     "cost", "status_code", "response_time_ms", "is_streaming", "is_success"}

\* a call binds when every keyword is a parameter; otherwise TypeError
Binds(args) == args \subseteq RecordUsageParams

\* the row of UsageRecord that record_usage builds, without the columns that
\* describe the request (endpoint, method, model, response time); `call`
\* tags the request it was written for
UsageRecord(call, obj, tokens, cost, status_code, is_streaming, is_success, error) ==
    [call |-> call, user_id |-> obj.user_id, api_key_id |-> obj.key_id,
     total_tokens |-> tokens, cost |-> cost,
     status_code |-> status_code, is_streaming |-> is_streaming,
     is_success |-> is_success, error |-> error]

\* UsageService.record_usage: add, flush
record_usage(table, record) == Append(table, record)

\* a timeout handler that raises 504 without recording
OnTimeoutSilent(table, call, obj) == table

\* proxy_request `except httpx.TimeoutException`
OnTimeout(table, call, obj) ==
    record_usage(table, UsageRecord(call, obj, 0, 0, 504, FALSE, FALSE, TRUE))

\* proxy_request `except httpx.RequestError`
OnRequestError(table, call, obj) ==
    record_usage(table, UsageRecord(call, obj, 0, 0, 502, FALSE, FALSE, TRUE))

\* stream_generator `except Exception`
OnStreamException(table, call, obj) ==
    record_usage(table, UsageRecord(call, obj, 0, 0, 500, TRUE, FALSE, TRUE))

NoKey == [create_key(0, "s3", 0, None, None, None, 10, {}, None, "none") EXCEPT !.key_hash = "none"]
         @@ [key_id |-> 0]

NoRequest ==
    [pc |-> "idle", call |-> 0, loaded |-> NoKey, obj |-> NoKey, model |-> NoModel,
     total_tokens |-> 0]

ProxyInit ==
    /\ px = [s \in Slots |-> NoRequest]
    /\ calls = 0
    /\ pret = [call |-> 0, outcome |-> "none", status_code |-> 0]
    /\ usage = <<>>
    /\ vret = [call |-> 0, secret |-> "none", ok |-> 0]

\* get_api_key: validate_key on the presented secret, 401 when it returns None
PxStart(s, secret) ==
    LET k == validate_key(keys, secret, now)
        call == calls + 1
        row == keys[k] @@ [key_id |-> k]
    IN  /\ px[s].pc = "idle"
        /\ calls < MaxProxyCalls
        /\ calls' = call
        /\ vret' = [call |-> call, secret |-> secret, ok |-> k]
        /\ IF k = 0
           THEN /\ pret' = [call |-> call, outcome |-> "invalid_key", status_code |-> 401]
                /\ UNCHANGED px
           ELSE /\ UNCHANGED pret
                /\ px' = [px EXCEPT ![s] =
                            [pc |-> "admit", call |-> call, loaded |-> row,
                             obj |-> [row EXCEPT !.last_used_at = now],
                             model |-> NoModel, total_tokens |-> 0]]
        /\ UNCHANGED <<usage, now, requests, storeVars, notProxy>>

\* a request leaves the pipeline with the status its caller was sent
Leave(s, outcome, status_code) ==
    /\ px' = [px EXCEPT ![s] = NoRequest]
    /\ pret' = [call |-> px[s].call, outcome |-> outcome, status_code |-> status_code]

\* proxy_request up to the upstream call: rate limit, key quota, owner
\* quota, body, model access, and the choice of the handler
PxAdmit(s, model, is_streaming) ==
    LET r == px[s]
        k == r.obj.key_id
        lim == is_allowed(requests[k], r.obj.rate_limit, ProxyWindow, now)
        key_quota == check_quota(r.obj)
        flushed == KeyFlush(keys, k, r.loaded, r.obj)
    IN  /\ r.pc = "admit"
        /\ requests' = [requests EXCEPT ![k] = lim.stamps]
        /\ IF ~lim.allowed
           THEN Leave(s, "rate_limited", 429) /\ UNCHANGED keys
           ELSE /\ keys' = flushed
                /\ IF key_quota.limit # None /\ ~key_quota.has_quota
                   THEN Leave(s, "key_quota", 429)
                   ELSE IF ~user_check_quota(owners, r.obj.user_id)
                   THEN Leave(s, "user_quota", 429)
                   ELSE IF model # NoModel /\ ~check_model_access(r.obj, model)
                   THEN Leave(s, "model_denied", 403)
                   ELSE /\ px' = [px EXCEPT ![s].pc = IF is_streaming THEN "stream"
                                                      ELSE "upstream",
                                            ![s].loaded = r.obj,
                                            ![s].model = model]
                        /\ UNCHANGED pret
        /\ UNCHANGED <<calls, usage, vret, now, owners, kret, notProxy>>

\* a handle_normal_request that meters only the answers below 400
meter_responseOnSuccess(obj, status_code, tokens, cost) ==
    IF status_code < 400 THEN increment_usage(obj, tokens, cost, TRUE) ELSE obj

\* handle_normal_request `await key_service.increment_usage(...)`: called
\* after record_usage whatever the status of the upstream's answer
meter_response(obj, status_code, tokens, cost) ==
    increment_usage(obj, tokens, cost, TRUE)

\* handle_normal_request after the upstream answered: the usage record,
\* increment_usage, and the commit of the session
PxRespond(s, status_code, tokens) ==
    LET r == px[s]
        cost == Cost(tokens)
        record == UsageRecord(r.call, r.obj, tokens, cost, status_code, FALSE,
                              status_code < 400, FALSE)
        after == meter_response(r.obj, status_code, tokens, cost)
    IN  /\ r.pc = "upstream"
        /\ usage' = record_usage(usage, record)
        /\ keys' = Commit(keys, r.obj.key_id, r.loaded, after)
        /\ Leave(s, "response", status_code)
        /\ UNCHANGED <<calls, vret, now, requests, owners, kret, notProxy>>

\* the upstream call raises httpx.TimeoutException
PxTimeout(s) ==
    LET r == px[s]
    IN  /\ r.pc = "upstream"
        /\ usage' = OnTimeout(usage, r.call, r.obj)
        /\ Leave(s, "timeout", 504)
        /\ UNCHANGED <<calls, vret, now, requests, storeVars, notProxy>>

\* the upstream call raises another httpx.RequestError
PxRequestError(s) ==
    LET r == px[s]
    IN  /\ r.pc = "upstream"
        /\ usage' = OnRequestError(usage, r.call, r.obj)
        /\ Leave(s, "request_error", 502)
        /\ UNCHANGED <<calls, vret, now, requests, storeVars, notProxy>>

\* stream_generator relays a chunk whose data event carries a usage total
PxStreamChunk(s, tokens) ==
    /\ px[s].pc = "stream"
    /\ px[s].total_tokens = 0
    /\ px' = [px EXCEPT ![s].total_tokens = tokens]
    /\ UNCHANGED <<calls, pret, usage, vret, now, requests, storeVars, notProxy>>

\* the upstream stream ends: the record_usage call of lines 314-326, and
\* when it does not bind, the handler of `except Exception`
PxStreamEnd(s, status_code) ==
    LET r == px[s]
        cost == Cost(r.total_tokens)
        record == UsageRecord(r.call, r.obj, r.total_tokens, cost, status_code,
                              TRUE, status_code < 400, FALSE)
        after == increment_usage(r.obj, r.total_tokens, cost, TRUE)
    IN  /\ r.pc = "stream"
        /\ IF Binds(StreamEndArgs)
           THEN /\ usage' = record_usage(usage, record)
                /\ keys' = Commit(keys, r.obj.key_id, r.loaded, after)
                /\ Leave(s, "stream_end", StreamingStatus)
           ELSE /\ usage' = OnStreamException(usage, r.call, r.obj)
                /\ Leave(s, "stream_end", StreamingStatus)
                /\ UNCHANGED keys
        /\ UNCHANGED <<calls, vret, now, requests, owners, kret, notProxy>>

\* the upstream fails before or during the stream: any Exception
PxStreamError(s) ==
    LET r == px[s]
    IN  /\ r.pc = "stream"
        /\ usage' = OnStreamException(usage, r.call, r.obj)
        /\ Leave(s, "stream_error", StreamingStatus)
        /\ UNCHANGED <<calls, vret, now, requests, storeVars, notProxy>>

\* the client goes away: the generator is cancelled or closed, which is a
\* BaseException and passes `except Exception`
PxDisconnect(s) ==
    /\ px[s].pc = "stream"
    /\ Leave(s, "disconnect", StreamingStatus)
    /\ UNCHANGED <<calls, usage, vret, now, requests, storeVars, notProxy>>

\* a request arrives and takes a free session
Start ==
    \E s \in Slots, secret \in Secrets :
        /\ \A t \in Slots : t < s => px[t].pc # "idle"
        /\ PxStart(s, secret)
Admit == \E s \in Slots, model \in ModelInputs, is_streaming \in BOOLEAN :
            PxAdmit(s, model, is_streaming)
Respond == \E s \in Slots, status_code \in UpstreamStatus, tokens \in TokenCounts :
            PxRespond(s, status_code, tokens)
Timeout == \E s \in Slots : PxTimeout(s)
RequestError == \E s \in Slots : PxRequestError(s)
StreamChunk == \E s \in Slots, tokens \in StreamCounts : PxStreamChunk(s, tokens)
StreamEnd == \E s \in Slots, status_code \in UpstreamStatus : PxStreamEnd(s, status_code)
StreamError == \E s \in Slots : PxStreamError(s)
Disconnect == \E s \in Slots : PxDisconnect(s)

\* one request at a time: the next one starts when the last one has left
AllIdle == \A s \in Slots : px[s].pc = "idle"
StartAlone == AllIdle /\ Start

Finish ==
    \/ Admit \/ Respond \/ Timeout \/ RequestError
    \/ StreamChunk \/ StreamEnd \/ StreamError \/ Disconnect

\* time passes, once in a run, to the last instant of key 2's validity and
\* of the first rate-limit window, or to the instant after it
Expire ==
    /\ now = 0
    /\ \E t \in {Ticks(ProxyWindow) - 1, Ticks(ProxyWindow)} : now' = t
    /\ UNCHANGED <<requests, storeVars, proxyVars, notProxy>>

Administration ==
    UpdateKey \/ DeactivateKey \/ DeleteKey \/ ResetKeyUsage \/ UpdateOwner

\* requests that overlap, at one instant of the clock
ProxyNext == Start \/ Finish

AdministerAlone == AllIdle /\ Administration

ProxySeqNext == StartAlone \/ Finish \/ AdministerAlone \/ Expire


(***************************************************************************)
(* Issuing keys in batches: services/key_service.py create_batch, reached  *)
(* through POST /batch of routers/api_keys.py.  generate_api_key draws 32  *)
(* bytes from the system's random source; the model takes each draw to be  *)
(* a value never drawn before, and likewise the batch tag.                 *)
(***************************************************************************)
MaxBatchCount == 3
MaxBatches == 2

\* the secrets generate_api_key produces, in the order of the draws
GeneratedSecrets == <<"g1", "g2", "g3", "g4", "g5", "g6", "g7", "g8">>
generate_api_key(n) == GeneratedSecrets[n]

\* f"batch_{secrets.token_hex(8)}", by the number of the batch
BatchTags == <<"b1", "b2", "b3", "b4">>

\* the settings tried for a batch: the defaults of APIKeyBatchCreate, ceilings
\* with room, a quota ceiling of 0, a token ceiling of 0 (both fields are
\* `ge=0`), and an expiry
BatchPolicies ==
    {[rate_limit |-> 60, rate_limit_day |-> None, quota_limit |-> None,
      token_limit |-> None, discount_rate |-> 10, allowed_models |-> {},
      expires_at |-> None],
     [rate_limit |-> 1, rate_limit_day |-> 1, quota_limit |-> QuotaLimit,
      token_limit |-> TokenLimit, discount_rate |-> 5, allowed_models |-> {"m1"},
      expires_at |-> None],
     [rate_limit |-> 60, rate_limit_day |-> None, quota_limit |-> 0,
      token_limit |-> None, discount_rate |-> 10, allowed_models |-> {},
      expires_at |-> None],
     [rate_limit |-> 60, rate_limit_day |-> None, quota_limit |-> None,
      token_limit |-> 0, discount_rate |-> 10, allowed_models |-> {},
      expires_at |-> None],
     [rate_limit |-> 60, rate_limit_day |-> None, quota_limit |-> None,
      token_limit |-> None, discount_rate |-> 10, allowed_models |-> {},
      expires_at |-> Ticks(ProxyWindow) - 1]}

\* the id the database gives the next row
NextId(db) == IF DOMAIN db = {} THEN 1 ELSE (CHOOSE k \in DOMAIN db : \A j \in DOMAIN db : j <= k) + 1

\* a create_batch that draws one secret and gives it to every key
create_batchOneSecret(db, user_id, count, policy, batch_id, drawn) ==
    LET first == NextId(db)
        ids == first .. (first + count - 1)
        results == [i \in 1 .. count |->
                       [id |-> first + i - 1, plain_key |-> generate_api_key(drawn + 1)]]
    IN  [batch_id |-> batch_id, results |-> results,
         db |-> [k \in DOMAIN db \cup ids |->
                    IF k \in DOMAIN db THEN db[k]
                    ELSE create_key(user_id, results[k - first + 1].plain_key,
                                    policy.rate_limit, policy.rate_limit_day,
                                    policy.quota_limit, policy.token_limit,
                                    policy.discount_rate, policy.allowed_models,
                                    policy.expires_at, batch_id)]]

\* APIKeyService.create_batch: `count` calls of create_key with one batch tag
\* and one set of settings, each drawing its own secret; returns the tag and
\* the (record, plaintext) pairs, the records by their ids
create_batch(db, user_id, count, policy, batch_id, drawn) ==
    LET first == NextId(db)
        ids == first .. (first + count - 1)
        results == [i \in 1 .. count |->
                       [id |-> first + i - 1, plain_key |-> generate_api_key(drawn + i)]]
    IN  [batch_id |-> batch_id, results |-> results,
         db |-> [k \in DOMAIN db \cup ids |->
                    IF k \in DOMAIN db THEN db[k]
                    ELSE create_key(user_id, results[k - first + 1].plain_key,
                                    policy.rate_limit, policy.rate_limit_day,
                                    policy.quota_limit, policy.token_limit,
                                    policy.discount_rate, policy.allowed_models,
                                    policy.expires_at, batch_id)]]

\* no batch issued yet
NoBatch ==
    [n |-> 0, user_id |-> 0, count |-> 0,
     policy |-> CHOOSE p \in BatchPolicies : p.rate_limit_day = 1,
     batch_id |-> "none", results |-> <<>>]

IssueInit ==
    /\ bret = NoBatch
    /\ minted = 0

\* POST /batch by owner u
CreateBatch ==
    \E u \in OwnerIds, count \in 0 .. MaxBatchCount, policy \in BatchPolicies :
        LET r == create_batch(keys, u, count, policy, BatchTags[bret.n + 1], minted)
        IN  /\ bret.n < MaxBatches
            /\ bret.n < Len(BatchTags)
            /\ minted + count <= Len(GeneratedSecrets)
            /\ bret' = [n |-> bret.n + 1, user_id |-> u, count |-> count, policy |-> policy,
                        batch_id |-> r.batch_id, results |-> r.results]
            /\ minted' = minted + count
            /\ keys' = r.db
            /\ UNCHANGED <<owners, kret, proxyVars, limiterVars, ledgerVars, payVars, forwardVars,
                           loginVars>>

\* batches issued before and after the expiry instant of the settings tried
IssueNext == CreateBatch \/ Expire

(***************************************************************************)
(* Issuing one key: routers/api_keys.py create_key, POST on the keys'      *)
(* route, and the calls and resets that follow it.  APIKeyCreate accepts   *)
(* any ceiling that is not negative (`ge=0`).                              *)
(***************************************************************************)
\* the ceilings asked for the key issued here: a token ceiling of 0, a quota
\* ceiling of 0, a token ceiling with room
CreatedCeilings ==
    {[quota_limit |-> None, token_limit |-> 0],
     [quota_limit |-> 0, token_limit |-> None],
     [quota_limit |-> None, token_limit |-> TokenLimit]}

\* routers/api_keys.py create_key: a key for the caller, with the defaults of
\* APIKeyCreate but for the ceilings; its secret is the first draw of
\* generate_api_key
CreateKey ==
    \E u \in OwnerIds, c \in CreatedCeilings :
        LET id == NextId(keys)
        IN  /\ id \in AdminKeyIds
            /\ keys' = keys @@ (id :> create_key(u, generate_api_key(1), 60, None,
                                                  c.quota_limit, c.token_limit, 10, {},
                                                  None, "none"))
            /\ UNCHANGED <<owners, kret, proxyVars, limiterVars, ledgerVars, sideVars>>

CreateKeyAlone == AllIdle /\ CreateKey
ResetUsageAlone == AllIdle /\ ResetKeyUsage

\* calls served one at a time, a key issued, counters reset
ResetNext == StartAlone \/ Finish \/ CreateKeyAlone \/ ResetUsageAlone


(***************************************************************************)
(* Login: routers/auth.py login with its brute-force protection.  The      *)
(* failures are kept per identifier f"{client_ip}:{username}" in a         *)
(* dictionary of the process; the logins here are served one at a time.    *)
(***************************************************************************)
MaxLogins == 7                  \* logins in one run

MAX_LOGIN_ATTEMPTS == 5
LOCKOUT_DURATION == 300         \* seconds

ClientAddresses == {"a1", "a2"}
Usernames == {"alice", "bob"}
Passwords == {"pw", "bad"}
\* table users: alice, whose password is "pw"; there is no bob
Accounts == [u \in {"alice"} |-> "pw"]

\* f"{client_ip}:{form_data.username}"
Identifier(client_ip, username) == <<client_ip, username>>
Identifiers == {Identifier(a, u) : a \in ClientAddresses, u \in Usernames}
\* the logins tried: alice from either address, bob from the first
LoginForms ==
    {f \in [client_ip : ClientAddresses, username : Usernames, password : Passwords] :
        f.username = "bob" => f.client_ip = "a1" /\ f.password = "bad"}

\* UserService.authenticate_user: whether a user is returned
authenticate_user(username, password) ==
    username \in DOMAIN Accounts /\ Accounts[username] = password

\* a check_login_rate_limit that keeps a failure through the instant it
\* turns LOCKOUT_DURATION old
check_login_rate_limitInclusive(attempts, identifier, time) ==
    LET kept == SelectSeq(attempts[identifier],
                          LAMBDA t : time - t <= Ticks(LOCKOUT_DURATION))
    IN  [limited |-> Len(kept) >= MAX_LOGIN_ATTEMPTS,
         attempts |-> [attempts EXCEPT ![identifier] = kept]]

\* check_login_rate_limit: the failures younger than LOCKOUT_DURATION are
\* kept, and 429 is raised when MAX_LOGIN_ATTEMPTS of them remain
check_login_rate_limit(attempts, identifier, time) ==
    LET kept == SelectSeq(attempts[identifier],
                          LAMBDA t : time - t < Ticks(LOCKOUT_DURATION))
    IN  [limited |-> Len(kept) >= MAX_LOGIN_ATTEMPTS,
         attempts |-> [attempts EXCEPT ![identifier] = kept]]

\* record_failed_login
record_failed_login(attempts, identifier, time) ==
    [attempts EXCEPT ![identifier] = Append(@, time)]

\* clear_login_attempts: the identifier's entry is deleted; an absent entry
\* reads as the empty list
clear_login_attempts(attempts, identifier) ==
    [attempts EXCEPT ![identifier] = <<>>]

\* login: the status answered and the dictionary after the call
login(attempts, client_ip, username, password, time) ==
    LET identifier == Identifier(client_ip, username)
        checked == check_login_rate_limit(attempts, identifier, time)
    IN  IF checked.limited
        THEN [status_code |-> 429, attempts |-> checked.attempts]
        ELSE IF ~authenticate_user(username, password)
        THEN [status_code |-> 401,
              attempts |-> record_failed_login(checked.attempts, identifier, time)]
        ELSE [status_code |-> 200,
              attempts |-> clear_login_attempts(checked.attempts, identifier)]

LoginInit ==
    /\ login_attempts = [i \in Identifiers |-> <<>>]
    /\ lret = [n |-> 0, identifier |-> Identifier("a1", "alice"), authentic |-> FALSE,
               status_code |-> 0]

\* POST /auth/login
Login ==
    \E f \in LoginForms :
        LET a == f.client_ip
            u == f.username
            p == f.password
            r == login(login_attempts, a, u, p, now)
        IN  /\ lret.n < MaxLogins
            /\ login_attempts' = r.attempts
            /\ lret' = [n |-> lret.n + 1, identifier |-> Identifier(a, u),
                        authentic |-> authenticate_user(u, p),
                        status_code |-> r.status_code]
            /\ UNCHANGED <<ledgerVars, limiterVars, storeVars, proxyVars, issueVars,
                           payVars, forwardVars>>

\* the instants the logins are tried at: the start, a tick later, and the
\* ticks around LOCKOUT_DURATION after the start
LoginTimes ==
    {0, 1, Ticks(LOCKOUT_DURATION) - 1, Ticks(LOCKOUT_DURATION),
     Ticks(LOCKOUT_DURATION) + 1}

\* `datetime.now()`: time passes
LoginClock ==
    /\ \E t \in LoginTimes : t > now /\ now' = t
    /\ UNCHANGED <<requests, rlLog, caller, ledgerVars, storeVars, proxyVars, sideVars>>

LoginNext == Login \/ LoginClock


(***************************************************************************)
(* Payment notifications: services/payment_service.py handle_notify,       *)
(* reached through GET or POST /payment/notify of routers/payment.py.  A   *)
(* callback carries the order number, the provider's trade number, the     *)
(* trade status and an MD5 signature over the other fields and the         *)
(* merchant key.  Callbacks are handled one at a time.                     *)
(***************************************************************************)
MaxNotifies == 3

\* config.py epay_key, and a key that is not the merchant's
EpayKey == "epay_key"
SignKeys == {EpayKey, "other_key"}

OrderNos == {"o1", "o2", "o3"}
\* the order numbers a callback may name: the orders and an unknown one
NotifiedOrderNos == OrderNos \cup {"o9"}
TradeStatuses == {"TRADE_SUCCESS", "TRADE_CLOSED"}

\* the fields of a callback the signature covers
NotifyFields == [out_trade_no : NotifiedOrderNos, trade_no : {"t1"}, trade_status : TradeStatuses]

\* md5 of the sorted `k=v` pairs followed by the key: a value that two
\* inputs share only when fields and key are the same
md5_sign(fields, key) == <<fields.out_trade_no, fields.trade_no, fields.trade_status, key>>

\* `timedelta(minutes=15)`: the time an order stays open
OrderMinutes == 15
OrderLifetime == Ticks(OrderMinutes * 60)

\* PaymentService.create_order: the row of a new order placed at time
create_order(user_id, quota_amount, time) ==
    [user_id |-> user_id, quota_amount |-> quota_amount, status |-> "pending",
     trade_no |-> "none", expired_at |-> time + OrderLifetime]

\* a check_payment_status that expires whatever order has not been paid in time
check_payment_statusAnyStatus(table, order_no, time) ==
    IF order_no \in DOMAIN table /\ table[order_no].expired_at # None
       /\ table[order_no].expired_at < time
    THEN [table EXCEPT ![order_no].status = "expired"]
    ELSE table

\* a handle_notify that credits whenever a signed success arrives
handle_notifyEveryTime(table, accounts, data, received_sign) ==
    LET order_no == data.out_trade_no
    IN  IF received_sign # md5_sign(data, EpayKey)
        THEN [ok |-> FALSE, table |-> table, accounts |-> accounts]
        ELSE IF order_no \notin DOMAIN table
        THEN [ok |-> FALSE, table |-> table, accounts |-> accounts]
        ELSE IF data.trade_status = "TRADE_SUCCESS"
        THEN [ok |-> TRUE,
              table |-> [table EXCEPT ![order_no].status = "paid",
                                      ![order_no].trade_no = data.trade_no],
              accounts |->
                  IF table[order_no].user_id \in DOMAIN accounts
                  THEN [accounts EXCEPT ![table[order_no].user_id].quota_limit =
                                            @ + table[order_no].quota_amount]
                  ELSE accounts]
        ELSE [ok |-> FALSE, table |-> table, accounts |-> accounts]

\* PaymentService.handle_notify: the signature, the order, the order's
\* status, the trade status; returns whether the provider is told "success"
handle_notify(table, accounts, data, received_sign) ==
    LET order_no == data.out_trade_no
    IN  IF received_sign # md5_sign(data, EpayKey)
        THEN [ok |-> FALSE, table |-> table, accounts |-> accounts]
        ELSE IF order_no \notin DOMAIN table
        THEN [ok |-> FALSE, table |-> table, accounts |-> accounts]
        ELSE IF table[order_no].status = "paid"
        THEN [ok |-> TRUE, table |-> table, accounts |-> accounts]
        ELSE IF data.trade_status = "TRADE_SUCCESS"
        THEN [ok |-> TRUE,
              table |-> [table EXCEPT ![order_no].status = "paid",
                                      ![order_no].trade_no = data.trade_no],
              accounts |->
                  IF table[order_no].user_id \in DOMAIN accounts
                  THEN [accounts EXCEPT ![table[order_no].user_id].quota_limit =
                                            @ + table[order_no].quota_amount]
                  ELSE accounts]
        ELSE [ok |-> FALSE, table |-> table, accounts |-> accounts]

\* PaymentService.check_payment_status: a pending order past its expiry
\* becomes expired
check_payment_status(table, order_no, time) ==
    IF order_no \in DOMAIN table /\ table[order_no].status = "pending"
       /\ table[order_no].expired_at # None /\ table[order_no].expired_at < time
    THEN [table EXCEPT ![order_no].status = "expired"]
    ELSE table

\* three orders placed and not yet paid: one of each owner, and one whose
\* user row is gone
PayInit ==
    /\ payments = [o \in OrderNos |->
                      CASE o = "o1" -> create_order(1, 50, 0)
                        [] o = "o2" -> create_order(2, 20, 0)
                        [] OTHER -> create_order(3, 30, 0)]
    /\ nret = [n |-> 0, data |-> CHOOSE f \in NotifyFields : TRUE, verified |-> FALSE,
               ok |-> FALSE, found |-> "none"]

\* a callback arrives: its fields, and a signature made over some fields
\* with some key
PaymentNotify ==
    \E data \in NotifyFields, signed \in NotifyFields, key \in SignKeys :
        LET received_sign == md5_sign(signed, key)
            r == handle_notify(payments, owners, data, received_sign)
        IN  /\ nret.n < MaxNotifies
            /\ nret' = [n |-> nret.n + 1, data |-> data,
                        verified |-> received_sign = md5_sign(data, EpayKey), ok |-> r.ok,
                        found |-> IF data.out_trade_no \in DOMAIN payments
                                  THEN payments[data.out_trade_no].status ELSE "none"]
            /\ payments' = r.table
            /\ owners' = r.accounts
            /\ UNCHANGED <<keys, kret, proxyVars, limiterVars, ledgerVars, issueVars,
                           forwardVars, loginVars>>

\* GET /payment/order/{order_no}
GetOrderStatus ==
    \E o \in NotifiedOrderNos :
        /\ payments' = check_payment_status(payments, o, now)
        /\ UNCHANGED <<nret, storeVars, proxyVars, limiterVars, ledgerVars, issueVars,
                       forwardVars, loginVars>>

\* time passes, once in a run, to the instant the orders expire at, or to
\* the instant after it
OrdersAge ==
    /\ now = 0
    /\ \E t \in {OrderLifetime, OrderLifetime + 1} : now' = t
    /\ UNCHANGED <<requests, rlLog, caller, storeVars, proxyVars, ledgerVars, sideVars>>

PayNext == PaymentNotify \/ GetOrderStatus \/ OrdersAge


(***************************************************************************)
(* The request sent upstream: the routes of routers/proxy.py and the       *)
(* headers proxy_request and list_models prepare.  The requests here have  *)
(* passed get_api_key, which reads the key from the Authorization header.  *)
(***************************************************************************)
MaxForwards == 3

\* config.py upstream_api_key: empty by default, or the gateway's credential
UpstreamKeys == {"", "upstream_key"}

\* "Bearer <key>", and the key alone, which get_api_key accepts as well
Bearer(credential) == [scheme |-> "Bearer", credential |-> credential]
Bare(credential) == [scheme |-> "", credential |-> credential]
CallerAuthorizations == {Bearer("s1"), Bearer("s2"), Bare("s1"), Bare("s2")}

\* dict(request.headers) of a caller: names in lower case
RequestHeaders(authorization) ==
    [n \in {"authorization", "host", "content-length", "content-type"} |->
        CASE n = "authorization" -> authorization
          [] n = "host" -> Bare("gateway")
          [] n = "content-length" -> Bare("2")
          [] OTHER -> Bare("application/json")]

RequestPaths == {"/v1/chat/completions", "/v1/models", "/api/generate"}
RequestMethods == {"GET", "POST"}

\* the routes of the proxy router in the order they are registered, and
\* which requests each matches
ProxyRoutes == <<"proxy_v1", "proxy_api", "health_check", "list_models">>
RouteMatches(route, path, method) ==
    CASE route = "proxy_v1" -> path \in {"/v1/chat/completions", "/v1/models"}
      [] route = "proxy_api" -> path = "/api/generate"
      [] route = "health_check" -> path = "/health" /\ method = "GET"
      [] OTHER -> path = "/v1/models" /\ method = "GET"

\* the first registered route that matches handles the request
MatchRoute(path, method) ==
    LET hits == {i \in DOMAIN ProxyRoutes : RouteMatches(ProxyRoutes[i], path, method)}
    IN  ProxyRoutes[CHOOSE i \in hits : \A j \in hits : i <= j]

\* proxy_request: host, content-length and the caller's authorization are
\* dropped; the gateway's credential is set when one is configured
proxy_headers(headers, upstream_api_key) ==
    LET kept == [n \in DOMAIN headers \ {"host", "content-length", "authorization",
                                          "Authorization"} |-> headers[n]]
    IN  IF upstream_api_key # ""
        THEN [n \in DOMAIN kept \cup {"Authorization"} |->
                 IF n = "Authorization" THEN Bearer(upstream_api_key) ELSE kept[n]]
        ELSE kept

\* list_models: the gateway's credential when configured, else the caller's
\* authorization header
list_models_headers(headers, upstream_api_key) ==
    IF upstream_api_key # ""
    THEN [n \in {"Authorization"} |-> Bearer(upstream_api_key)]
    ELSE IF "authorization" \in DOMAIN headers
    THEN [n \in {"Authorization"} |-> headers["authorization"]]
    ELSE [n \in {} |-> Bare("")]

NoForward ==
    [n |-> 0, route |-> "none", path |-> "none", method |-> "none",
     authorization |-> Bare("none"), headers |-> [n \in {} |-> Bare("")]]

\* the defaults of config.py
ForwardInit ==
    /\ settings = [upstream_api_key |-> ""]
    /\ fwd = NoForward

\* the gateway is started with UPSTREAM_API_KEY set in its environment
Configure ==
    /\ fwd.n = 0
    /\ settings.upstream_api_key = ""
    /\ \E k \in UpstreamKeys \ {""} : settings' = [settings EXCEPT !.upstream_api_key = k]
    /\ UNCHANGED <<fwd, ledgerVars, limiterVars, storeVars, proxyVars, issueVars, payVars,
                   loginVars>>

\* a request with a good key reaches the upstream call of its route
ForwardRequest ==
    \E path \in RequestPaths, method \in RequestMethods, authorization \in CallerAuthorizations :
        LET route == MatchRoute(path, method)
            headers == RequestHeaders(authorization)
        IN  /\ fwd.n < MaxForwards
            /\ fwd' = [n |-> fwd.n + 1, route |-> route, path |-> path, method |-> method,
                       authorization |-> authorization,
                       headers |-> IF route = "list_models"
                                   THEN list_models_headers(headers, settings.upstream_api_key)
                                   ELSE proxy_headers(headers, settings.upstream_api_key)]
            /\ UNCHANGED <<settings, ledgerVars, limiterVars, storeVars, proxyVars, issueVars,
                           payVars, loginVars>>

ForwardNext == Configure \/ ForwardRequest

(***************************************************************************)
(* Specifications.                                                         *)
(***************************************************************************)
vars == <<ledgerVars, limiterVars, storeVars, proxyVars, sideVars>>

Init ==
    /\ LedgerInit /\ LimiterInit /\ StoreInit /\ ProxyInit
    /\ IssueInit /\ PayInit /\ ForwardInit /\ LoginInit

\* ledger calls one at a time
SpecLedger == Init /\ [][LedgerNext]_vars

\* ledger calls of concurrent requests
SpecRace == Init /\ [][RaceNext]_vars

\* the rate limiter under concurrent requests
SpecLimiter == Init /\ [][LimiterNext]_vars

\* the gateway under concurrent requests that arrive within one instant
SpecProxy == Init /\ [][ProxyNext]_vars

\* the gateway serving one request at a time, under administration
SpecProxySeq == Init /\ [][ProxySeqNext]_vars

\* keys issued in batches
SpecIssue == Init /\ [][IssueNext]_vars

\* the reset of a key's counters between calls served one at a time
SpecReset == Init /\ [][ResetNext]_vars

\* payment notifications, one at a time
SpecPay == Init /\ [][PayNext]_vars

\* the headers of the requests sent upstream
SpecForward == Init /\ [][ForwardNext]_vars

\* logins, one at a time, as time passes
SpecLogin == Init /\ [][LoginNext]_vars

(***************************************************************************)
(* Properties of the balance ledger.                                       *)
(***************************************************************************)
RECURSIVE SumAmounts(_, _)
\* the amounts of user_id's transactions in txs, summed in creation order
SumAmounts(txs, user_id) ==
    IF txs = <<>> THEN 0
    ELSE SumAmounts(Tail(txs), user_id)
         + (IF Head(txs).user_id = user_id THEN Head(txs).amount ELSE 0)

\* the call ret' describes would leave the stored balance below zero
WouldOverdraw ==
    /\ ret'.user_id \in DOMAIN users
    /\ \/ /\ ret'.op = "consume"
          /\ ret'.amount > 0
          /\ users[ret'.user_id].token_balance
                - ActualAmount(users[ret'.user_id], ret'.amount, ret'.apply_discount) < 0
       \/ /\ ret'.op = "adjust"
          /\ users[ret'.user_id].token_balance + Tenths(ret'.amount) < 0

\* C1: with the ledger calls run one at a time from a balance of zero, no
\* user's token_balance and no transaction's balance_after is ever negative,
\* and a consume or adjust that would take the balance below zero returns
\* failure and changes neither the users nor the transactions.
C1_BalanceNeverNegative ==
    /\ [](/\ \A u \in DOMAIN users : users[u].token_balance >= 0
          /\ \A i \in 1 .. Len(transactions) : transactions[i].balance_after >= 0)
    /\ [][WouldOverdraw =>
            /\ ~ret'.success
            /\ users' = users
            /\ transactions' = transactions]_vars

\* a consume of more than the positive balance has just been refused
C1_Witness ==
    /\ ret.op = "consume" /\ ret.user_id = 1 /\ ~ret.success
    /\ users[1].token_balance > 0
    /\ users[1].token_balance
         < ActualAmount(users[1], ret.amount, ret.apply_discount)

\* C2: two consume calls of concurrent requests for one user that have both
\* passed the balance test and not yet written are both covered by the
\* stored balance: they never both pass on a balance that fits only one.
C2_AtMostOneSucceeds ==
    \A s, t \in Sessions :
        (/\ s # t
         /\ sess[s].pc = "flush" /\ sess[t].pc = "flush"
         /\ sess[s].op = "consume" /\ sess[t].op = "consume"
         /\ sess[s].user_id = sess[t].user_id)
        => (-sess[s].res.tx[1].amount) + (-sess[t].res.tx[1].amount)
              <= users[sess[s].user_id].token_balance

\* C3: every transaction has balance_after = balance_before + amount, and
\* with the calls run one at a time from a balance of zero the amounts of a
\* user's transactions sum to the user's token_balance.
C3_LedgerIntegrity ==
    /\ \A i \in 1 .. Len(transactions) :
          transactions[i].balance_after
            = transactions[i].balance_before + transactions[i].amount
    /\ \A u \in DOMAIN users :
          SumAmounts(transactions, u) = users[u].token_balance

\* a debit by adjust follows a credit and the ledger holds both
C3_Witness ==
    /\ Len(transactions) >= 2
    /\ \E i \in 1 .. Len(transactions) :
          transactions[i].transaction_type = "adjust" /\ transactions[i].amount < 0
    /\ \E i \in 1 .. Len(transactions) :
          transactions[i].transaction_type = "consume"

\* C4: with concurrent requests, whenever no call is between its select and
\* its flush, each user's token_balance is the starting balance (zero) plus
\* the amounts of all transactions written for that user.
C4_NoLostUpdate ==
    (\A s \in Sessions : sess[s].pc = "idle")
    => \A u \in DOMAIN users :
          users[u].token_balance = SumAmounts(transactions, u)

(***************************************************************************)
(* Properties of the rate limiter.                                         *)
(***************************************************************************)
\* the calls for key k among rlLog[lo .. hi] that were admitted
AdmittedIn(k, lo, hi) ==
    {i \in lo .. hi : rlLog[i].key = k /\ rlLog[i].allowed}

\* the admitted calls for rlLog[j]'s key before call j that are less than
\* a window older than it
RecentBefore(j) ==
    {i \in AdmittedIn(rlLog[j].key, 1, j - 1) :
        rlLog[j].at - rlLog[i].at < Ticks(ProxyWindow)}

\* C7: for one scoping key with its max_requests and the window of 60 s,
\* the admitted calls in any span shorter than the window number at most
\* max_requests; a call is admitted exactly when fewer than max_requests
\* calls were admitted in the window before it (so max_requests calls in
\* one second pass, and a call after the window has passed is admitted
\* again), and a rejected call reports reset_in_seconds <= 60.
C7_SlidingWindow ==
    /\ \A i, j \in 1 .. Len(rlLog) :
          (i <= j /\ rlLog[i].key = rlLog[j].key
             /\ rlLog[j].at - rlLog[i].at < Ticks(ProxyWindow))
          => Cardinality(AdmittedIn(rlLog[i].key, i, j)) <= RateLimitOf(rlLog[i].key)
    /\ \A j \in 1 .. Len(rlLog) :
          /\ rlLog[j].allowed
               <=> Cardinality(RecentBefore(j)) < RateLimitOf(rlLog[j].key)
          /\ ~rlLog[j].allowed => rlLog[j].reset_in <= ProxyWindow

\* key 1: three calls admitted within one second, a fourth rejected in the
\* same window, a fifth admitted once the window has passed
C7_Witness ==
    /\ Len(rlLog) >= 5
    /\ \A i \in 1 .. 5 : rlLog[i].key = 1
    /\ \A i \in 1 .. 3 : rlLog[i].allowed /\ rlLog[i].at <= Ticks(1)
    /\ ~rlLog[4].allowed /\ rlLog[4].at < Ticks(ProxyWindow)
    /\ rlLog[5].allowed /\ rlLog[5].at - rlLog[1].at >= Ticks(ProxyWindow)

\* the timestamps of s that are still inside the window at time t
Live(stamps, t) == SelectSeq(stamps, LAMBDA ts : t - ts < Ticks(ProxyWindow))

RECURSIVE AdmittedAt(_, _)
\* the times of the admitted calls for key k in log, in call order
AdmittedAt(log, k) ==
    IF log = <<>> THEN <<>>
    ELSE (IF Head(log).key = k /\ Head(log).allowed THEN <<Head(log).at>> ELSE <<>>)
         \o AdmittedAt(Tail(log), k)

\* C8: with several requests waiting on the limiter for the same key, the
\* calls take effect one after another: the key's list holds the timestamp
\* of every admitted call that is still inside the window and nothing else
\* inside the window (no under-counting), and the admitted calls inside
\* the window never number more than max_requests (no over-admission).
C8_Serialized ==
    \A k \in KeyIds :
        /\ Live(requests[k], now) = Live(AdmittedAt(rlLog, k), now)
        /\ Len(Live(AdmittedAt(rlLog, k), now)) <= RateLimitOf(k)

\* a request still waits on key 2 while another request's call for key 2
\* has just been admitted and filled the key's window
C8_Witness ==
    /\ \E c \in Callers : caller[c] = 2
    /\ rlLog # <<>>
    /\ rlLog[Len(rlLog)].key = 2
    /\ rlLog[Len(rlLog)].allowed
    /\ rlLog[Len(rlLog)].at = now
    /\ Len(Live(requests[2], now)) = RateLimitOf(2)

(***************************************************************************)
(* Properties of the proxy pipeline and the credential store.              *)
(***************************************************************************)
\* the usage records of buffered upstream responses on key k, the calls
\* for which handle_normal_request goes on to increment_usage
Metered(k) ==
    SelectSeq(usage, LAMBDA r : r.api_key_id = k /\ ~r.is_streaming /\ ~r.error)

\* what one such call adds to quota_used and total_cost of its key
Charged(k, r) ==
    IF keys[k].discount_rate < 10 THEN (r.cost * keys[k].discount_rate) \div 10
    ELSE r.cost

RECURSIVE SumTokens(_, _)
SumTokens(records, n) ==
    IF n = 0 THEN 0 ELSE SumTokens(records, n - 1) + records[n].total_tokens

RECURSIVE SumCharged(_, _, _)
SumCharged(k, records, n) ==
    IF n = 0 THEN 0 ELSE SumCharged(k, records, n - 1) + Charged(k, records[n])

\* C5: once the concurrent proxied requests have all finished, every key's
\* total_requests, total_tokens, token_used, quota_used and total_cost are
\* the starting values (zero) plus the contribution of every metered call
\* on the key: no usage is lost and none is counted twice.
C5_NoLostUsage ==
    AllIdle =>
        \A k \in DOMAIN keys :
            LET m == Metered(k)
            IN  /\ keys[k].total_requests = Len(m)
                /\ keys[k].total_tokens = SumTokens(m, Len(m))
                /\ keys[k].token_used = SumTokens(m, Len(m))
                /\ keys[k].quota_used = SumCharged(k, m, Len(m))
                /\ keys[k].total_cost = SumCharged(k, m, Len(m))

\* the records written for call c
RecordsOf(c) == SelectSeq(usage, LAMBDA r : r.call = c)

\* a forwarded request of slot s leaves the pipeline in this step, by an
\* upstream response, a timeout, a connection failure, or the end or the
\* failure of its stream
ForwardedLeaves(s) ==
    /\ px[s].pc \in {"upstream", "stream"}
    /\ px'[s].pc = "idle"
    /\ pret'.outcome # "disconnect"

Matching(secret) == {k \in DOMAIN keys : keys[k].key_hash = hash_api_key(secret)}

\* C9: validate_key returns the key record exactly when a key with the
\* presented secret's digest exists and is active, not past expires_at,
\* with token_used < token_limit when token_limit is set and quota_used <
\* quota_limit when quota_limit is set; the owner's state has no part in it.
C9_ValidateExactly ==
    [][vret'.call # vret.call =>
        LET usable == {k \in Matching(vret'.secret) :
                          /\ keys[k].is_active
                          /\ keys[k].expires_at = None \/ ~(now > keys[k].expires_at)
                          /\ keys[k].token_limit = None
                             \/ keys[k].token_used < keys[k].token_limit
                          /\ keys[k].quota_limit = None
                             \/ keys[k].quota_used < keys[k].quota_limit}
        IN  IF usable = {} THEN vret'.ok = 0 ELSE vret'.ok \in usable]_vars

\* a key has just been returned although its owner is suspended or has no
\* quota left
C9_Witness ==
    \E s \in Slots :
        /\ px[s].pc = "admit"
        /\ px[s].call = vret.call
        /\ vret.ok = px[s].obj.key_id
        /\ \/ ~owners[px[s].obj.user_id].is_active
           \/ owners[px[s].obj.user_id].quota_used >= owners[px[s].obj.user_id].quota_limit

\* the token budget of key k is used up
Spent(row) == row.token_limit # None /\ row.token_used >= row.token_limit

\* this step is a successful reset_key_usage or update of token_limit on k
Replenished(k) ==
    /\ kret' # kret
    /\ kret'.ok
    /\ kret'.key_id = k
    /\ kret'.op \in {"reset_key_usage", "update_key"}

\* C10: across any sequence of proxied calls on a key with token_limit set,
\* validate accepts the key while token_used < token_limit (unless the key
\* is inactive, expired or out of quota), rejects it on every call made once
\* token_used has reached or passed token_limit, and the budget stays used
\* up until reset_key_usage or a change of token_limit.
C10_TokenBudget ==
    [][/\ vret'.call # vret.call =>
            \A k \in Matching(vret'.secret) :
                /\ Spent(keys[k]) => vret'.ok = 0
                /\ ~Spent(keys[k]) /\ vret'.ok = 0 =>
                        \/ ~keys[k].is_active
                        \/ keys[k].expires_at # None /\ keys[k].expires_at < now
                        \/ keys[k].quota_limit # None
                           /\ keys[k].quota_used >= keys[k].quota_limit
       /\ \A k \in DOMAIN keys \cap DOMAIN keys' :
            Spent(keys[k]) => Spent(keys'[k]) \/ Replenished(k)]_vars

\* the second call on key 1 has just been rejected: the first one used up
\* the token budget of the key, which is active and was never reset
C10_Witness ==
    /\ AllIdle
    /\ calls >= 2
    /\ vret.call = calls
    /\ vret.secret = "s1"
    /\ vret.ok = 0
    /\ kret.n = 0
    /\ keys[1].is_active
    /\ keys[1].token_limit # None
    /\ keys[1].token_used >= keys[1].token_limit
    /\ Len(Metered(1)) >= 1

(***************************************************************************)
(* Properties of admission: the order of its checks, the daily limit, the  *)
(* statuses of its refusals.                                               *)
(***************************************************************************)
\* the calendar day of an instant; a run begins at the start of a day
DayOf(t) == t \div Ticks(24 * 60 * 60)

\* the requests on key k that the limiter let in on the day of `now`
DayRequests(k) == Len(SelectSeq(requests[k], LAMBDA ts : DayOf(ts) = DayOf(now)))

\* the refusals of a call that presented a key, as the caller is told
Refusals == {"invalid_key", "rate_limited", "key_quota", "user_quota", "model_denied"}

\* a call is refused in this step
Refused == pret' # pret /\ pret'.outcome \in Refusals

\* the keys a call refused or forwarded in this step presented, when the
\* credential itself is good: the row exists, is active and has not expired
Presented ==
    IF pret' # pret /\ pret'.outcome = "invalid_key"
    THEN {k \in Matching(vret'.secret) :
            keys[k].is_active /\ ~(keys[k].expires_at # None /\ keys[k].expires_at < now)}
    ELSE {px[s].obj.key_id : s \in {t \in Slots : px[t].pc = "admit" /\ px'[t].pc # "admit"}}

\* the first check that fails for key k, in the order per-minute rate
\* limit, daily rate limit, key quota, owner quota, token budget
FirstFailing(k) ==
    IF Len(Live(requests[k], now)) >= keys[k].rate_limit THEN "rate_limited"
    ELSE IF keys[k].rate_limit_day # None /\ DayRequests(k) >= keys[k].rate_limit_day
    THEN "day_limited"
    ELSE IF keys[k].quota_limit # None /\ keys[k].quota_used >= keys[k].quota_limit
    THEN "key_quota"
    ELSE IF owners[keys[k].user_id].quota_used >= owners[keys[k].user_id].quota_limit
    THEN "user_quota"
    ELSE IF keys[k].token_limit # None /\ keys[k].token_used >= keys[k].token_limit
    THEN "token_limit"
    ELSE "none"

\* C11: admission applies its checks in the order per-minute rate limit,
\* daily rate limit, key quota, owner quota, token budget, model allow-list,
\* and reports the first that fails: a call with a good credential is
\* refused for the first failing check of that order, for the model only
\* when no earlier check fails, and is forwarded only when none fails.
C11_AdmissionOrder ==
    [][\A k \in Presented :
        /\ Refused /\ FirstFailing(k) # "none" => pret'.outcome = FirstFailing(k)
        /\ Refused /\ FirstFailing(k) = "none" => pret'.outcome = "model_denied"
        /\ ~Refused => FirstFailing(k) = "none"]_vars

\* C12: a key with rate_limit_day set is refused once its requests of the
\* current calendar day have reached rate_limit_day: no call on such a key
\* is forwarded to the upstream from then on.
C12_DailyLimit ==
    [][\A s \in Slots :
        px[s].pc = "admit" /\ px'[s].pc \in {"upstream", "stream"} =>
            LET k == px[s].obj.key_id
            IN  keys[k].rate_limit_day # None =>
                    DayRequests(k) < keys[k].rate_limit_day]_vars

\* C13: a refusal is answered 429 for the rate limit, for an exhausted
\* quota and for an exhausted token budget, 403 for a model outside the
\* allow-list and 401 for an invalid key; a key that exists, is active and
\* has not expired is never answered 401 for a ceiling it has reached.
C13_RefusalStatus ==
    [][Refused =>
        /\ pret'.outcome \in {"rate_limited", "key_quota", "user_quota"} =>
                pret'.status_code = 429
        /\ pret'.outcome = "model_denied" => pret'.status_code = 403
        /\ pret'.outcome = "invalid_key" =>
                /\ pret'.status_code = 401
                /\ \A k \in Presented : ~TokenExhausted(keys[k]) /\ ~QuotaExhausted(keys[k])
        /\ \A k \in Presented :
                Spent(keys[k]) \/ QuotaExhausted(keys[k]) => pret'.status_code = 429]_vars

\* the request of slot s is handed to the upstream service in this step
Forwarded(s) ==
    /\ px'[s].pc \in {"upstream", "stream"}
    /\ px[s].pc \notin {"upstream", "stream"}

\* C14: no request is sent upstream unless key validation and every check
\* of admission passed: a request is handed to the upstream service only by
\* the admission step of a call that validate_key accepted, with room in the
\* key's rate-limit window, the key's quota and the owner's quota not used
\* up, and a model the key may use; a refused call never was upstream.
C14_NoUpstreamUnlessAdmitted ==
    [][/\ \A s \in Slots :
            Forwarded(s) =>
                LET k == px[s].obj.key_id
                    u == px[s].obj.user_id
                    model == px'[s].model
                IN  /\ px[s].pc = "admit"
                    /\ vret.call = px[s].call /\ vret.ok = k /\ k \in DOMAIN keys
                    /\ Len(Live(requests[k], now)) < keys[k].rate_limit
                    /\ requests'[k] = Append(Live(requests[k], now), now)
                    /\ keys[k].quota_limit = None
                       \/ keys[k].quota_used < keys[k].quota_limit
                    /\ owners[u].quota_used < owners[u].quota_limit
                    /\ \/ model = NoModel
                       \/ keys[k].allowed_models = {}
                       \/ model \in keys[k].allowed_models
       /\ Refused => \A s \in Slots : px[s].pc \in {"upstream", "stream"} => px'[s] = px[s]
       /\ Refused => usage' = usage]_vars

\* the first call went upstream and was answered; the second, on key 2 with
\* a model outside its list, has just been refused and left no record
C14_Witness ==
    /\ AllIdle
    /\ pret.call = 2
    /\ pret.outcome = "model_denied"
    /\ vret.ok = 2
    /\ Len(usage) = 1
    /\ usage[1].call = 1

(***************************************************************************)
(* Properties of metering: upstream failures, the owner's quota, streams.  *)
(***************************************************************************)
\* the upstream call of a forwarded request fails in this step: a timeout
\* or a connection failure, of a buffered call or of a stream
UpstreamFails ==
    pret' # pret /\ pret'.outcome \in {"timeout", "request_error", "stream_error"}

\* C15: when the upstream call times out or the connection fails, the
\* pipeline writes one failed usage record with status 504 (timeout) or 502
\* (connection failure), zero tokens, zero cost, is_success false and an
\* error text, answers the caller with the same status, and leaves the
\* key's token_used and quota_used and the rate-limit window as they were.
C15_UpstreamFailure ==
    [][UpstreamFails =>
        LET record == usage'[Len(usage')]
        IN  /\ Len(usage') = Len(usage) + 1
            /\ record.call = pret'.call
            /\ record.status_code \in {504, 502}
            /\ pret'.outcome = "timeout" => record.status_code = 504
            /\ pret'.outcome = "request_error" => record.status_code = 502
            /\ pret'.status_code = record.status_code
            /\ record.total_tokens = 0
            /\ record.cost = 0
            /\ ~record.is_success
            /\ record.error
            /\ \A k \in DOMAIN keys :
                /\ keys'[k].token_used = keys[k].token_used
                /\ keys'[k].quota_used = keys[k].quota_used
            /\ requests' = requests]_vars

\* a buffered upstream response is metered in this step
Responds == pret' # pret /\ pret'.outcome = "response"

\* C16: after a non-streaming upstream response the token count and the
\* cost are applied to the key's counters and to the owner's quota_used:
\* the key's token_used grows by the tokens and its quota_used by the
\* charged cost, and the owner's quota_used grows by the cost (as recorded,
\* or as charged to the key), so that the owner's quota check can come to
\* refuse further calls.
C16_OwnerQuotaCharged ==
    [][Responds =>
        LET record == usage'[Len(usage')]
            k == record.api_key_id
            u == record.user_id
        IN  /\ keys'[k].token_used = keys[k].token_used + record.total_tokens
            /\ keys'[k].quota_used = keys[k].quota_used + Charged(k, record)
            /\ owners'[u].quota_used - owners[u].quota_used
                    \in {record.cost, Charged(k, record)}]_vars

\* the stream of slot s ends in this step, the client still connected
StreamEnds(s) == px[s].pc = "stream" /\ px'[s].pc = "idle" /\ pret'.outcome = "stream_end"

\* the client of the stream of slot s goes away in this step
Disconnects(s) == px[s].pc = "stream" /\ px'[s].pc = "idle" /\ pret'.outcome = "disconnect"

\* C17: for a streamed call the usage record is written only after the
\* upstream stream has ended; it carries the last usage total seen in the
\* stream (zero if none) and the cost of that total, with is_success
\* reflecting the upstream status, and the key's counters are then
\* increased by those tokens and that cost.
C17_StreamMetered ==
    /\ [](\A s \in Slots : px[s].pc = "stream" => Len(RecordsOf(px[s].call)) = 0)
    /\ [][\A s \in Slots :
            StreamEnds(s) =>
                LET record == usage'[Len(usage')]
                    k == px[s].obj.key_id
                IN  /\ Len(usage') = Len(usage) + 1
                    /\ record.call = px[s].call
                    /\ record.is_streaming
                    /\ record.total_tokens = px[s].total_tokens
                    /\ record.cost = Cost(px[s].total_tokens)
                    /\ record.status_code \in UpstreamStatus
                    /\ record.is_success = (record.status_code < 400)
                    /\ keys'[k].token_used = keys[k].token_used + px[s].total_tokens
                    /\ keys'[k].quota_used = keys[k].quota_used + Charged(k, record)]_vars

\* C18: a streamed call whose client disconnects before the terminal usage
\* payload still produces exactly one usage record, whose total_tokens is
\* the last usage total observed (zero if none) and whose is_success
\* matches the upstream status at the time of the disconnect.
C18_DisconnectRecorded ==
    /\ [](\A c \in 1 .. calls : Len(RecordsOf(c)) <= 1)
    /\ [][\A s \in Slots :
            Disconnects(s) =>
                LET record == usage'[Len(usage')]
                IN  /\ Len(usage') = Len(usage) + 1
                    /\ record.call = px[s].call
                    /\ record.is_streaming
                    /\ record.total_tokens = px[s].total_tokens
                    /\ record.status_code \in UpstreamStatus
                    /\ record.is_success = (record.status_code < 400)]_vars

(***************************************************************************)
(* Properties of consume with the ledger calls run one at a time.          *)
(***************************************************************************)
\* this step is a consume call with a positive amount on an existing user
ConsumeCall ==
    /\ ret'.op = "consume"
    /\ ret' # ret \/ users' # users \/ transactions' # transactions
    /\ ret'.user_id \in DOMAIN users
    /\ ret'.amount > 0

\* the discounted amount of the call, in tenths of a token: the amount
\* times the user's discount rate when the discount is asked for
Discounted ==
    IF ret'.apply_discount
    THEN ret'.amount * users[ret'.user_id].discount_rate
    ELSE ret'.amount * 10

\* C19: in every sequence of consume calls on one user, run one at a time,
\* a call whose discounted amount is at most the balance (equality
\* included) succeeds and lowers the balance by exactly that amount, and a
\* call whose discounted amount exceeds the balance fails, leaves the
\* balance unchanged and writes no transaction: nothing is consumed in part.
C19_ConsumeAllOrNothing ==
    [][ConsumeCall =>
        LET u == ret'.user_id
        IN  IF Discounted <= users[u].token_balance
            THEN /\ ret'.success
                 /\ users'[u].token_balance = users[u].token_balance - Discounted
                 /\ ret'.balance = users'[u].token_balance
                 /\ Len(transactions') = Len(transactions) + 1
            ELSE /\ ~ret'.success
                 /\ ret'.balance = users[u].token_balance
                 /\ users' = users
                 /\ transactions' = transactions]_vars

\* a consume of the whole balance went through, and the next consume, on
\* the balance of zero it left, has just been refused
C19_Witness ==
    /\ ret.op = "consume" /\ ret.user_id = 1 /\ ret.amount > 0 /\ ~ret.success
    /\ users[1].token_balance = 0
    /\ transactions # <<>>
    /\ transactions[Len(transactions)].transaction_type = "consume"
    /\ transactions[Len(transactions)].balance_before > 0
    /\ transactions[Len(transactions)].balance_after = 0

\* C20: a successful consume with apply_discount debits amount times the
\* user's discount_rate and stores a transaction whose amount is the
\* negative of that debit; without apply_discount it debits and stores the
\* full amount; total_consumed grows by the debited amount.
C20_DiscountedDebit ==
    [][ConsumeCall /\ ret'.success =>
        LET u == ret'.user_id
            tx == transactions'[Len(transactions')]
        IN  /\ Len(transactions') = Len(transactions) + 1
            /\ tx.user_id = u
            /\ tx.transaction_type = "consume"
            /\ tx.amount = 0 - Discounted
            /\ tx.balance_before = users[u].token_balance
            /\ tx.balance_after = users[u].token_balance - Discounted
            /\ users'[u].token_balance = users[u].token_balance - Discounted
            /\ users'[u].total_consumed = users[u].total_consumed + Discounted]_vars

\* a consume of 1 token at the rate 0.5 has just debited 0.5 and stored a
\* transaction of -0.5
C20_Witness ==
    /\ ret.op = "consume" /\ ret.user_id = 1 /\ ret.success /\ ret.apply_discount
    /\ ret.amount = 1
    /\ users[1].discount_rate = 5
    /\ transactions # <<>>
    /\ transactions[Len(transactions)].amount = 0 - 5
    /\ users[1].total_consumed = 5

(***************************************************************************)
(* Properties of failing ledger calls and of check_balance.                *)
(***************************************************************************)
\* a ledger call is made in this step; ret' describes it
LedgerCall == ret' # ret \/ users' # users \/ transactions' # transactions

\* the call of this step is one the ledger must refuse: a recharge, consume
\* or refund of a non-positive amount, a call on a user that does not
\* exist, a consume or adjust the balance does not cover, a set_discount
\* with a rate outside (0, 1]
MustFail ==
    LET u == ret'.user_id
        a == ret'.amount
        rate == IF u \in DOMAIN users THEN users[u].discount_rate ELSE 10
        debit == IF ret'.apply_discount THEN a * rate ELSE a * 10
    IN  \/ ret'.op \in {"recharge", "consume", "refund"} /\ a <= 0
        \/ ret'.op \in TokenOps \cup {"set_discount"} /\ u \notin DOMAIN users
        \/ ret'.op = "consume" /\ u \in DOMAIN users /\ users[u].token_balance < debit
        \/ ret'.op = "adjust" /\ u \in DOMAIN users /\ users[u].token_balance + a * 10 < 0
        \/ ret'.op = "set_discount" /\ (a <= 0 \/ a > 10)

\* C21: a balance operation that fails (recharge, consume or refund with
\* amount <= 0, any operation on a user that does not exist, consume or
\* adjust with insufficient balance, set_discount with rate <= 0 or > 1)
\* reports failure, changes no user's balance, totals or discount rate and
\* adds no transaction.
C21_FailureChangesNothing ==
    [][LedgerCall /\ ret'.op \in TokenOps \cup {"set_discount"} =>
        /\ MustFail => ~ret'.success
        /\ ~ret'.success => users' = users /\ transactions' = transactions]_vars

\* a set_discount with a rate above 1 has just been refused for a user who
\* holds a balance, a discount and a transaction history
C21_Witness ==
    /\ ret.op = "set_discount" /\ ret.user_id = 1 /\ ret.amount > 10 /\ ~ret.success
    /\ users[1].discount_rate = 5
    /\ users[1].token_balance > 0
    /\ transactions # <<>>

\* C22: for every existing user and every amount > 0, check_balance returns
\* has_enough = true exactly when a consume of the same amount with
\* apply_discount=true issued in the same state would succeed, returns the
\* current balance, and changes no state.
C22_CheckMatchesConsume ==
    [][LedgerCall /\ ret'.op = "check_balance" /\ ret'.user_id \in DOMAIN users
            /\ ret'.amount > 0 =>
        LET u == ret'.user_id
        IN  /\ ret'.success = consume(TRUE, users[u], u, ret'.amount, TRUE).success
            /\ ret'.balance = users[u].token_balance
            /\ users' = users
            /\ transactions' = transactions]_vars

\* check_balance has just answered yes for an amount that the balance
\* covers only because of the user's discount
C22_Witness ==
    /\ ret.op = "check_balance" /\ ret.user_id = 1 /\ ret.success
    /\ users[1].discount_rate = 5
    /\ users[1].token_balance < Tenths(ret.amount)
    /\ users[1].token_balance >= ret.amount * 5

(***************************************************************************)
(* Properties of a key's counters and of key administration.               *)
(***************************************************************************)
\* this step is a successful reset_key_usage of key k
ResetOf(k) == kret' # kret /\ kret'.ok /\ kret'.key_id = k /\ kret'.op = "reset_key_usage"

KeyAdminCall == kret' # kret /\ kret'.op \in {"update_key", "deactivate_key", "delete_key"}

Usable(policy, time) ==
    /\ policy.quota_limit = None \/ policy.quota_limit > 0
    /\ policy.token_limit = None \/ policy.token_limit > 0
    /\ ~Expired(policy.expires_at, time)

\* the records returned are as many as asked for, carry the returned tag and
\* the settings asked for, and their secrets differ pairwise
BatchShape(b, db) ==
    /\ Len(b.results) = b.count
    /\ \A i \in DOMAIN b.results :
           /\ b.results[i].id \in DOMAIN db
           /\ db[b.results[i].id].batch_id = b.batch_id
           /\ db[b.results[i].id].user_id = b.user_id
           /\ \A c \in DOMAIN b.policy : db[b.results[i].id][c] = b.policy[c]
    /\ \A i, j \in DOMAIN b.results :
           i # j => /\ b.results[i].plain_key # b.results[j].plain_key
                    /\ b.results[i].id # b.results[j].id

\* validate_key accepts each returned secret as the key it was returned with
BatchValidates(b, db, time) ==
    \A i \in DOMAIN b.results :
        validate_key(db, b.results[i].plain_key, time) = b.results[i].id

\* C25, as worded: create_batch with count = n returns n key records with the
\* returned batch tag and the same settings and n pairwise distinct secrets,
\* and validate_key accepts each secret as its own key.
C25_BatchAlwaysValidates ==
    [][bret'.n # bret.n =>
          BatchShape(bret', keys') /\ BatchValidates(bret', keys', now')]_vars

\* C25, amended: the same, with validate_key accepting each secret when the
\* settings leave room: quota and token ceilings unset or above 0 and the
\* expiry unset or not yet passed.
C25_BatchIssued ==
    [][bret'.n # bret.n =>
          /\ BatchShape(bret', keys')
          /\ Usable(bret'.policy, now') => BatchValidates(bret', keys', now')]_vars

C25_Witness ==
    /\ bret.n = MaxBatches
    /\ bret.count = MaxBatchCount
    /\ bret.policy.quota_limit = QuotaLimit
    /\ BatchShape(bret, keys)
    /\ BatchValidates(bret, keys, now)

(***************************************************************************)
(* Properties of the model allow-list.                                     *)
(***************************************************************************)
\* the call that left the admit stage in this step was refused for `outcome`
RefusedFor(outcome) == pret' # pret /\ pret'.outcome = outcome

\* C26: check_model_access allows every model when the key's allow-list is
\* empty and otherwise exactly the models of the list; a request that names
\* a model outside a non-empty list and reaches the model check is refused
\* with 403, and a request that names no model is not checked: it is never
\* refused for its model and goes upstream once the earlier checks pass.
C26_ModelAccess ==
    [][\A s \in Slots, model \in ModelInputs, is_streaming \in BOOLEAN :
        PxAdmit(s, model, is_streaming) =>
            LET obj == px[s].obj
                listed == obj.allowed_models = {} \/ model \in obj.allowed_models
                reaches == ~(\E o \in {"rate_limited", "key_quota", "user_quota"} :
                                RefusedFor(o))
            IN  /\ model # NoModel => (check_model_access(obj, model) <=> listed)
                /\ reaches /\ model # NoModel /\ ~listed =>
                       /\ RefusedFor("model_denied")
                       /\ pret'.status_code = 403
                       /\ px'[s].pc = "idle"
                /\ model = NoModel \/ listed => ~RefusedFor("model_denied")
                /\ reaches /\ (model = NoModel \/ listed) =>
                       /\ px'[s].pc \in {"upstream", "stream"}
                       /\ px'[s].model = model]_vars

\* a call naming a model outside its key's list has just been refused with
\* 403 while a call naming no model, admitted unchecked, is upstream
C26_Witness ==
    /\ pret.outcome = "model_denied"
    /\ pret.status_code = 403
    /\ \E s \in Slots : /\ px[s].pc \in {"upstream", "stream"}
                        /\ px[s].model = NoModel

(***************************************************************************)
(* Properties of payment notifications.                                    *)
(***************************************************************************)
RECURSIVE SumPaid(_, _)
\* the quota amounts of the paid orders of user u among the orders S
SumPaid(S, u) ==
    IF S = {} THEN 0
    ELSE LET o == CHOOSE x \in S : TRUE
         IN  (IF payments[o].status = "paid" /\ payments[o].user_id = u
              THEN payments[o].quota_amount ELSE 0) + SumPaid(S \ {o}, u)

\* an owner's quota_limit is what it was at first plus the amount of each
\* paid order of that owner, counted once
CreditedOnce ==
    \A u \in DOMAIN owners :
        owners[u].quota_limit = NewOwner(100).quota_limit + SumPaid(OrderNos, u)

\* a step raises an owner's quota_limit, or marks an order paid, only as a
\* verified callback reporting success for an order that was not paid yet
CreditedByVerifiedSuccess ==
    [][(\E u \in DOMAIN owners : owners'[u].quota_limit # owners[u].quota_limit)
       \/ (\E o \in OrderNos : payments'[o].status = "paid" /\ payments[o].status # "paid")
       => /\ nret'.n = nret.n + 1
          /\ nret'.verified
          /\ nret'.ok
          /\ nret'.data.trade_status = "TRADE_SUCCESS"
          /\ nret'.data.out_trade_no \in OrderNos
          /\ payments[nret'.data.out_trade_no].status # "paid"
          /\ \A u \in DOMAIN owners :
                 owners'[u].quota_limit =
                     IF u = payments[nret'.data.out_trade_no].user_id
                     THEN owners[u].quota_limit
                          + payments[nret'.data.out_trade_no].quota_amount
                     ELSE owners[u].quota_limit]_vars

\* C27: over any sequence of payment notification callbacks, a user's
\* quota_limit is raised by an order's quota_amount only by a callback whose
\* signature verifies and which reports success, and at most once per order
\* however often the callback for that order is repeated.
C27_CreditOnce == []CreditedOnce /\ CreditedByVerifiedSuccess

\* order o1 was credited by the first callback, and the callback was then
\* repeated twice with a good signature
C27_Witness ==
    /\ nret.n = MaxNotifies
    /\ nret.n >= 2
    /\ nret.verified /\ nret.ok
    /\ nret.data.out_trade_no = "o1"
    /\ nret.data.trade_status = "TRADE_SUCCESS"
    /\ payments["o1"].status = "paid"
    /\ \A o \in OrderNos \ {"o1"} : payments[o].status # "paid"
    /\ owners[1].quota_limit = NewOwner(100).quota_limit + payments["o1"].quota_amount

(***************************************************************************)
(* Properties of the request sent upstream.                                *)
(***************************************************************************)
\* the Authorization header of a prepared request, by either spelling of
\* the name; Bare("") when there is none
SentAuthorization(headers) ==
    IF "Authorization" \in DOMAIN headers THEN headers["Authorization"]
    ELSE IF "authorization" \in DOMAIN headers THEN headers["authorization"]
    ELSE Bare("")

\* C28: a forwarded request carries the gateway's own bearer credential when
\* an upstream credential is configured, and otherwise carries the caller's
\* original Authorization header through to the upstream.
C28_UpstreamCredential ==
    fwd.n > 0 =>
        SentAuthorization(fwd.headers) =
            IF settings.upstream_api_key # "" THEN Bearer(settings.upstream_api_key)
            ELSE fwd.authorization

(***************************************************************************)
(* Properties of a rejected rate-limit check.                              *)
(***************************************************************************)
\* an is_allowed call returns in this step, rejected
Rejects == Len(rlLog') = Len(rlLog) + 1 /\ ~rlLog'[Len(rlLog')].allowed

\* C29: a rejected is_allowed call records no timestamp: the key's list
\* after it holds the timestamps that were inside the window and nothing
\* else, so the time the key is admitted again does not move; the call
\* returns remaining = 0 and reset_in = the whole seconds until the oldest
\* kept timestamp leaves the window, a value from 0 to the window.
C29_RejectedLeavesNoTrace ==
    [][Rejects =>
          LET e == rlLog'[Len(rlLog')]
              k == e.key
              kept == Live(requests[k], now)
              oldest == Min(Range(kept))
          IN  /\ requests'[k] = kept
              /\ kept # <<>>
              /\ \A j \in KeyIds \ {k} : requests'[j] = requests[j]
              /\ e.remaining = 0
              /\ e.reset_in = (oldest + Ticks(ProxyWindow) - now) \div TicksPerSec
              /\ e.reset_in >= 0 /\ e.reset_in <= ProxyWindow]_vars

\* key 2, one request a minute: admitted at the start, rejected half a
\* second later with reset_in 59, admitted again exactly one window after
\* the first call, less than a window after the rejected one
C29_Witness ==
    \E i, j, m \in DOMAIN rlLog :
        /\ i < j /\ j < m
        /\ rlLog[i].key = 2 /\ rlLog[j].key = 2 /\ rlLog[m].key = 2
        /\ rlLog[i].allowed /\ ~rlLog[j].allowed /\ rlLog[m].allowed
        /\ rlLog[j].at = rlLog[i].at + 1
        /\ rlLog[j].remaining = 0
        /\ rlLog[j].reset_in = ProxyWindow - 1
        /\ rlLog[m].at = rlLog[i].at + Ticks(ProxyWindow)

(***************************************************************************)
(* Properties of the usage increment.                                      *)
(***************************************************************************)
\* C30: increment_usage adds cost * key.discount_rate to the key's
\* quota_used and total_cost when the key's discount_rate is below 1 and
\* the undiscounted cost otherwise, adds the token count to token_used and
\* total_tokens, and adds 1 to total_requests; the owner's discount rate
\* plays no part.
C30_UsageIncrement ==
    [][Responds =>
        LET record == usage'[Len(usage')]
            k == record.api_key_id
            rate == keys[k].discount_rate
            added == IF rate < 10 THEN (record.cost * rate) \div 10 ELSE record.cost
        IN  /\ keys'[k].quota_used = keys[k].quota_used + added
            /\ keys'[k].total_cost = keys[k].total_cost + added
            /\ keys'[k].token_used = keys[k].token_used + record.total_tokens
            /\ keys'[k].total_tokens = keys[k].total_tokens + record.total_tokens
            /\ keys'[k].total_requests = keys[k].total_requests + 1]_vars

\* key 2, at rate 0.8 and owned by a user at rate 0.5, has been charged 0.8
\* of the cost of a response of two tokens
C30_Witness ==
    /\ pret.outcome = "response"
    /\ Len(usage) = 1
    /\ usage[1].api_key_id = 2
    /\ usage[1].total_tokens = 2
    /\ usage[1].cost = Cost(2)
    /\ 2 \in DOMAIN keys
    /\ keys[2].discount_rate = 8
    /\ owners[keys[2].user_id].discount_rate = 5
    /\ keys[2].quota_used = (Cost(2) * 8) \div 10
    /\ keys[2].total_cost = keys[2].quota_used
    /\ keys[2].token_used = 2
    /\ keys[2].total_requests = 1

(***************************************************************************)
(* Properties of the order of the rate limiter and the other checks.       *)
(***************************************************************************)
\* the keys whose request left the admit stage in this step
LeftAdmit == {px[s].obj.key_id : s \in {t \in Slots : px[t].pc = "admit" /\ px'[t].pc = "idle"}}

\* C31: a request that passes the per-minute rate limiter and is then
\* refused by the key-quota, owner-quota or model check has taken a
\* rate-limit slot of its key: the time of the call is on the key's list; a
\* request refused by key validation takes none.
C31_SlotTakenBeforeRefusal ==
    [][/\ (\E o \in {"key_quota", "user_quota", "model_denied"} : RefusedFor(o)) =>
             \A k \in LeftAdmit :
                 requests'[k] = Append(Live(requests[k], now), now)
       /\ RefusedFor("invalid_key") => requests' = requests]_vars

\* the only call so far, with a good key, was refused for the owner's quota
\* and is on the key's list
C31_Witness ==
    /\ calls = 1
    /\ pret.call = 1
    /\ pret.outcome = "user_quota"
    /\ vret.ok \in KeyIds
    /\ requests[vret.ok] = <<now>>
    /\ usage = <<>>

(***************************************************************************)
(* Properties of the overshoot of a key's token ceiling.                   *)
(***************************************************************************)
\* the largest token count one call can add
LargestCount == CHOOSE n \in TokenCounts : \A m \in TokenCounts : m <= n

Counters(row) ==
    <<row.total_requests, row.total_tokens, row.token_used, row.quota_used, row.total_cost>>

\* the buffered call of slot s leaves the pipeline in this step
BufferedLeaves(s) == px[s].pc = "upstream" /\ px'[s].pc = "idle"

\* C33: a non-streaming call whose upstream answer has a status of 400 or
\* more is recorded with is_success false and metered like a successful
\* one: the key's total_requests grows by 1 and the tokens and the charged
\* cost of the answer are added to its counters; of the non-streaming calls
\* sent upstream only those that time out or fail to connect leave the
\* key's counters as they were.
C33_ErrorAnswerMetered ==
    [][\A s \in Slots :
        BufferedLeaves(s) =>
            LET record == usage'[Len(usage')]
                k == px[s].obj.key_id
            IN  /\ Len(usage') = Len(usage) + 1
                /\ record.call = px[s].call
                /\ pret'.outcome \in {"response", "timeout", "request_error"}
                /\ pret'.outcome = "response" =>
                    /\ record.status_code = pret'.status_code
                    /\ record.is_success = (record.status_code < 400)
                    /\ Counters(keys'[k]) =
                           <<keys[k].total_requests + 1,
                             keys[k].total_tokens + record.total_tokens,
                             keys[k].token_used + record.total_tokens,
                             keys[k].quota_used + Charged(k, record),
                             keys[k].total_cost + Charged(k, record)>>
                    /\ Counters(keys'[k]) # Counters(keys[k])
                /\ pret'.outcome # "response" =>
                    /\ ~record.is_success
                    /\ \A j \in DOMAIN keys : Counters(keys'[j]) = Counters(keys[j])]_vars

\* the only call so far was answered 500 with two tokens in the body: its
\* record says is_success false and key 1 was metered for it
C33_Witness ==
    /\ pret.outcome = "response"
    /\ pret.status_code = 500
    /\ Len(usage) = 1
    /\ usage[1].api_key_id = 1
    /\ usage[1].status_code = 500
    /\ ~usage[1].is_success
    /\ usage[1].total_tokens = 2
    /\ 1 \in DOMAIN keys
    /\ keys[1].total_requests = 1
    /\ keys[1].token_used = 2
    /\ keys[1].total_tokens = 2
    /\ keys[1].quota_used = Cost(2)

(***************************************************************************)
(* Properties of the reset of a key's counters.                            *)
(***************************************************************************)
\* the secret whose digest the row holds
SecretOf(row) ==
    CHOOSE p \in Secrets \cup {generate_api_key(1)} : hash_api_key(p) = row.key_hash

\* validate_key refuses key k at this time for nothing but its token or
\* quota ceiling: the key is active and not expired
RefusedForCeiling(db, k, time) ==
    /\ validate_key(db, SecretOf(db[k]), time) = 0
    /\ db[k].is_active
    /\ ~Expired(db[k].expires_at, time)

\* the row of key k after a reset: the four counters at 0, total_cost, the
\* ceilings, the discount rate, the active flag and the expiry as they were
ResetRow(row) ==
    [row EXCEPT !.quota_used = 0, !.token_used = 0, !.total_requests = 0,
                !.total_tokens = 0]

\* C34, as worded: reset_key_usage sets quota_used, token_used,
\* total_requests and total_tokens to 0 and leaves total_cost, the ceilings,
\* the discount rate, the active flag and the expiry as they were, and a key
\* that validate_key refused only for its token or quota ceiling is accepted
\* after the reset.
C34_ResetRestores ==
    [][\A k \in DOMAIN keys :
        ResetOf(k) =>
            /\ keys' = [keys EXCEPT ![k] = ResetRow(keys[k])]
            /\ RefusedForCeiling(keys, k, now) =>
                   validate_key(keys', SecretOf(keys[k]), now') = k]_vars

\* the ceilings of the row leave room for a key that has used nothing
CeilingsAboveZero(row) ==
    /\ row.token_limit = None \/ row.token_limit > 0
    /\ row.quota_limit = None \/ row.quota_limit > 0

\* C34, amended: the same, the key being accepted after the reset when its
\* ceilings are above 0; a key with a ceiling of 0 stays refused.
C34_ResetRestoresAboveZero ==
    [][\A k \in DOMAIN keys :
        ResetOf(k) =>
            /\ keys' = [keys EXCEPT ![k] = ResetRow(keys[k])]
            /\ RefusedForCeiling(keys, k, now) =>
                   IF CeilingsAboveZero(keys[k])
                   THEN validate_key(keys', SecretOf(keys[k]), now') = k
                   ELSE validate_key(keys', SecretOf(keys[k]), now') = 0]_vars

\* key 1 used its two tokens in one call, was refused on the next, and is
\* accepted again after its reset, its total_cost kept
C34_Witness ==
    /\ kret.op = "reset_key_usage" /\ kret.ok /\ kret.key_id = 1
    /\ calls = 2
    /\ pret.outcome = "invalid_key"
    /\ vret.secret = "s1"
    /\ Len(usage) = 1
    /\ usage[1].api_key_id = 1
    /\ usage[1].total_tokens = keys[1].token_limit
    /\ keys[1].token_used = 0
    /\ keys[1].total_cost = Cost(TokenLimit)
    /\ validate_key(keys, "s1", now) = 1

(***************************************************************************)
(* Properties of the ledger's running totals.                              *)
(***************************************************************************)
\* the refund and adjust transactions of the table
RefundsAndAdjusts ==
    SelectSeq(transactions, LAMBDA t : t.transaction_type \in {"refund", "adjust"})

\* C35: total_recharged changes only through recharge and total_consumed
\* only through consume, each growing by the amount credited or debited;
\* refund and adjust change the balance and neither total; so, the calls
\* being run one at a time from a user at zero, the balance is always
\* total_recharged - total_consumed + the refund and adjust amounts.
C35_TotalsAccount ==
    /\ [][\A u \in DOMAIN users :
            /\ users'[u].total_recharged # users[u].total_recharged =>
                   /\ ret'.op = "recharge" /\ ret'.success /\ ret'.user_id = u
                   /\ users'[u].total_recharged =
                          users[u].total_recharged + Tenths(ret'.amount)
                   /\ users'[u].token_balance =
                          users[u].token_balance + Tenths(ret'.amount)
            /\ users'[u].total_consumed # users[u].total_consumed =>
                   /\ ret'.op = "consume" /\ ret'.success /\ ret'.user_id = u
                   /\ users'[u].total_consumed - users[u].total_consumed =
                          users[u].token_balance - users'[u].token_balance
                   /\ users'[u].total_consumed > users[u].total_consumed
            /\ ret' # ret /\ ret'.op \in {"refund", "adjust"} =>
                   /\ users'[u].total_recharged = users[u].total_recharged
                   /\ users'[u].total_consumed = users[u].total_consumed]_vars
    /\ [](\A u \in DOMAIN users :
            users[u].token_balance =
                users[u].total_recharged - users[u].total_consumed
                    + SumAmounts(RefundsAndAdjusts, u))

\* a recharge of 2, a consume of 1 and a refund of 1 have left a balance of
\* 2 with total_recharged 2 and total_consumed 1
C35_Witness ==
    /\ Len(transactions) = 3
    /\ transactions[1].transaction_type = "recharge"
    /\ transactions[2].transaction_type = "consume"
    /\ transactions[3].transaction_type = "refund"
    /\ users[1].total_recharged = Tenths(2)
    /\ users[1].total_consumed = Tenths(1)
    /\ users[1].token_balance = Tenths(2)

(***************************************************************************)
(* Properties of the status of an order.                                   *)
(***************************************************************************)
\* this step is a callback whose signature verifies and which reports
\* success for order o
PaidBy(o) ==
    /\ nret'.n = nret.n + 1
    /\ nret'.verified /\ nret'.ok
    /\ nret'.data.out_trade_no = o
    /\ nret'.data.trade_status = "TRADE_SUCCESS"

\* the owner of order o, when there is one, is credited in this step
Credited(o) ==
    LET u == payments[o].user_id
    IN  u \in DOMAIN owners =>
            owners'[u].quota_limit = owners[u].quota_limit + payments[o].quota_amount

\* C36: the status of an order moves only from pending to paid, from
\* pending to expired (by check_payment_status once expired_at has passed)
\* or from expired to paid (a valid success callback is honoured and
\* credited even after the expiry); a paid order keeps its status, and
\* check_payment_status never alters it.
C36_StatusMoves ==
    [][\A o \in DOMAIN payments :
        /\ payments'[o].status # payments[o].status =>
              \/ /\ payments[o].status \in {"pending", "expired"}
                 /\ payments'[o].status = "paid"
                 /\ PaidBy(o)
                 /\ nret'.found = payments[o].status
                 /\ Credited(o)
              \/ /\ payments[o].status = "pending"
                 /\ payments'[o].status = "expired"
                 /\ nret' = nret
                 /\ payments[o].expired_at < now
        /\ payments[o].status = "paid" => payments'[o] = payments[o]]_vars

\* order o1 ran out unpaid, was found expired by a success callback after
\* its time, and is paid and credited
C36_Witness ==
    /\ nret.found = "expired"
    /\ nret.verified /\ nret.ok
    /\ nret.data.out_trade_no = "o1"
    /\ payments["o1"].status = "paid"
    /\ payments["o1"].expired_at < now
    /\ owners[1].quota_limit = NewOwner(100).quota_limit + payments["o1"].quota_amount

(***************************************************************************)
(* Properties of the lockout of an identifier.                             *)
(***************************************************************************)
\* a login is made in this step; lret' describes it
LoginCall == lret'.n = lret.n + 1

\* C37: after 5 failed logins of one identifier within 300 seconds every
\* further login of that identifier is answered 429, the correct password
\* included, until 300 seconds after the oldest of those failures; a login
\* refused during the lockout is not recorded and does not extend it, and a
\* successful login clears the identifier's failures.
C37_Lockout ==
    /\ [](\A i \in Identifiers : Len(login_attempts[i]) <= MAX_LOGIN_ATTEMPTS)
    /\ [][LoginCall =>
            LET i == lret'.identifier
                failures == login_attempts[i]
            IN  /\ Len(failures) = MAX_LOGIN_ATTEMPTS =>
                       (lret'.status_code = 429 <=>
                            now < failures[1] + Ticks(LOCKOUT_DURATION))
                /\ Len(failures) < MAX_LOGIN_ATTEMPTS => lret'.status_code # 429
                /\ lret'.status_code = 429 => login_attempts'[i] = failures
                /\ lret'.status_code = 200 => login_attempts'[i] = <<>>
                /\ lret'.status_code = 200 <=> lret'.status_code # 429 /\ lret'.authentic
                /\ lret'.status_code = 401 =>
                       /\ Len(login_attempts'[i]) > 0
                       /\ login_attempts'[i][Len(login_attempts'[i])] = now
                /\ \A j \in Identifiers \ {i} : login_attempts'[j] = login_attempts[j]]_vars

\* alice's correct password from the first address is answered 429 at the
\* last instant of the lockout that five failures set, the oldest at time 0
\* and the latest a tick later
C37_Witness ==
    /\ lret.identifier = Identifier("a1", "alice")
    /\ lret.authentic
    /\ lret.status_code = 429
    /\ now = Ticks(LOCKOUT_DURATION) - 1
    /\ Len(login_attempts[lret.identifier]) = MAX_LOGIN_ATTEMPTS
    /\ login_attempts[lret.identifier][1] = 0
    /\ login_attempts[lret.identifier][MAX_LOGIN_ATTEMPTS] = 1
    /\ lret.n = MAX_LOGIN_ATTEMPTS + 1

====
